---- MODULE Spec2Model ----
(***************************************************************************)
(* Iris: discovery (local walk, repository clone, web crawl), filtering,   *)
(* concurrent token counting and aggregation, modelled from the Go source. *)
(*                                                                         *)
(* Strings the code inspects character by character (base names, glob      *)
(* patterns, flag values, path strings) are tuples of one-character        *)
(* strings, obtained from the readable name through the table Chars.       *)
(* Paths are tuples of path components; a URL is the tuple of its scheme,  *)
(* page and fragment.                                                      *)
(***************************************************************************)
EXTENDS Integers, Sequences, FiniteSets, Bags, TLC

VARIABLES
    \* configuration (package-level flag variables of main.go)
    includePatterns, excludePatterns, maxSizeBytes, maxDepth, showHidden,
    noIgnore, langData, traverseLinks, linkDepth, numThreads, disableTokens,
    outputFormat, pdfOutput,
    \* environment
    web, tokenizerOK, numCPU,
    \* state of rootCmd.Run
    finalInputPaths, pc, idx, allFilesMaster, failedPaths, tempDirsToClean,
    cleanupRegistered, closeDeferred, closeCalls,
    tmpOnDisk, tmpEver, inputLog, fetchLog,
    \* enrichment stage
    jobs, results, jobsClosed, resultsClosed, wg, sent, worker, numWorkers,
    processedFiles, summary,
    \* what the output stage rendered, and the order it received the entries in
    rendered, received

cfgVars == <<includePatterns, excludePatterns, maxSizeBytes, maxDepth, showHidden,
             noIgnore, langData, traverseLinks, linkDepth, numThreads, outputFormat,
             pdfOutput>>
envVars == <<web, tokenizerOK, numCPU, finalInputPaths>>
discVars == <<idx, allFilesMaster, failedPaths, tempDirsToClean, tmpEver, inputLog,
              fetchLog>>
poolVars == <<jobs, results, jobsClosed, resultsClosed, wg, sent, worker, numWorkers>>
outVars == <<rendered, received>>
vars == <<cfgVars, envVars, discVars, poolVars, disableTokens, pc, cleanupRegistered,
          closeDeferred, closeCalls, tmpOnDisk, processedFiles, summary, outVars>>

-----------------------------------------------------------------------------
(* Bounds of the model *)

\* largest value of --max-depth explored
MaxDepthCfg == 2
\* largest value of --link-depth explored
MaxLinkDepth == 2
\* largest number of inputs on one command line
MaxInputs == 2
\* largest value of --threads and of runtime.NumCPU() explored
MaxThreads == 2
\* longest entry list handed to the enrichment stage on its own
MaxEntries == 3

-----------------------------------------------------------------------------
(* Strings *)

NoErr == "nil"

\* the characters of every name, pattern and flag value the model uses
Chars ==
    [s \in {""} |-> <<>>] @@
    ( "r" :> <<"r">> @@ "q" :> <<"q">> @@ "d" :> <<"d">> @@ "s" :> <<"s">> @@
      "u" :> <<"u">> @@ "v" :> <<"v">> @@ "ig" :> <<"i", "g">> @@ "w" :> <<"w">> @@
      "nope" :> <<"n", "o", "p", "e">> @@
      "t1" :> <<"t", "1">> @@ "t2" :> <<"t", "2">> @@ "t3" :> <<"t", "3">> @@
      "a.go" :> <<"a", ".", "g", "o">> @@ "c.go" :> <<"c", ".", "g", "o">> @@
      "e.go" :> <<"e", ".", "g", "o">> @@ "f.go" :> <<"f", ".", "g", "o">> @@
      "g.go" :> <<"g", ".", "g", "o">> @@ "k.go" :> <<"k", ".", "g", "o">> @@
      "m.go" :> <<"m", ".", "g", "o">> @@ "o.go" :> <<"o", ".", "g", "o">> @@
      "u.go" :> <<"u", ".", "g", "o">> @@ "x.go" :> <<"x", ".", "g", "o">> @@
      "y.go" :> <<"y", ".", "g", "o">> @@ "z.go" :> <<"z", ".", "g", "o">> @@
      "b.txt" :> <<"b", ".", "t", "x", "t">> @@
      "n.xyz" :> <<"n", ".", "x", "y", "z">> @@
      "j.js" :> <<"j", ".", "j", "s">> @@
      "Makefile" :> <<"M", "a", "k", "e", "f", "i", "l", "e">> @@
      "lock" :> <<"l", "o", "c", "k">> @@
      "target" :> <<"t", "a", "r", "g", "e", "t">> @@
      "node_modules" :> <<"n", "o", "d", "e", "_", "m", "o", "d", "u", "l", "e", "s">> @@
      ".h" :> <<".", "h">> @@ ".git" :> <<".", "g", "i", "t">> @@
      ".secret" :> <<".", "s", "e", "c", "r", "e", "t">> @@
      ".gitignore" :> <<".", "g", "i", "t", "i", "g", "n", "o", "r", "e">> @@
      "config" :> <<"c", "o", "n", "f", "i", "g">> @@
      ".go" :> <<".", "g", "o">> @@ ".txt" :> <<".", "t", "x", "t">> @@
      ".js" :> <<".", "j", "s">> @@
      \* flag values
      "*.txt" :> <<"*", ".", "t", "x", "t">> @@
      "*.go" :> <<"*", ".", "g", "o">> @@
      "[,*.txt" :> <<"[", ",", "*", ".", "t", "x", "t">> @@
      "*.txt,[" :> <<"*", ".", "t", "x", "t", ",", "[">> @@
      "ta*,[ab].*" :> <<"t", "a", "*", ",", "[", "a", "b", "]", ".", "*">> @@
      "?.go,Makefile" :> <<"?", ".", "g", "o", ",", "M", "a", "k", "e", "f", "i", "l", "e">> @@
      "[" :> <<"[">> @@
      "[,*.go" :> <<"[", ",", "*", ".", "g", "o">> @@
      \* the parts of a URL
      "http" :> <<"h", "t", "t", "p">> @@ "https" :> <<"h", "t", "t", "p", "s">> @@
      "ftp" :> <<"f", "t", "p">> @@
      "P" :> <<"P">> @@ "Q" :> <<"Q">> @@ "R" :> <<"R">> @@ "S" :> <<"S">> @@
      "f" :> <<"f">> @@ "a" :> <<"a">> @@ "b" :> <<"b">> @@
      "top" :> <<"t", "o", "p">> @@
      "**/.git/**,**/target/**,**/node_modules/**" :>
          << "*", "*", "/", ".", "g", "i", "t", "/", "*", "*", ",",
             "*", "*", "/", "t", "a", "r", "g", "e", "t", "/", "*", "*", ",",
             "*", "*", "/", "n", "o", "d", "e", "_", "m", "o", "d", "u", "l", "e", "s",
             "/", "*", "*" >> )

\* byte value of each character (ASCII), the order Go compares strings in
Ord ==
    "#" :> 35 @@ "*" :> 42 @@ "," :> 44 @@ "." :> 46 @@ "/" :> 47 @@ "1" :> 49 @@
    "2" :> 50 @@ "3" :> 51 @@ ":" :> 58 @@ "?" :> 63 @@ "M" :> 77 @@ "P" :> 80 @@
    "Q" :> 81 @@ "R" :> 82 @@ "S" :> 83 @@ "[" :> 91 @@ "]" :> 93 @@ "_" :> 95 @@
    "a" :> 97 @@ "b" :> 98 @@ "c" :> 99 @@ "d" :> 100 @@ "e" :> 101 @@ "f" :> 102 @@
    "g" :> 103 @@ "h" :> 104 @@ "i" :> 105 @@ "j" :> 106 @@ "k" :> 107 @@
    "l" :> 108 @@ "m" :> 109 @@ "n" :> 110 @@ "o" :> 111 @@ "p" :> 112 @@
    "q" :> 113 @@ "r" :> 114 @@ "s" :> 115 @@ "t" :> 116 @@ "u" :> 117 @@
    "v" :> 118 @@ "w" :> 119 @@ "x" :> 120 @@ "y" :> 121 @@ "z" :> 122

\* s < t for Go strings: bytewise lexicographic
RECURSIVE StrLess(_, _)
StrLess(s, t) ==
    IF t = <<>> THEN FALSE
    ELSE IF s = <<>> THEN TRUE
    ELSE IF Head(s) = Head(t) THEN StrLess(Tail(s), Tail(t))
    ELSE Ord[Head(s)] < Ord[Head(t)]

\* index of the first occurrence of character c in s, 0 when absent
IndexOf(s, c) ==
    IF \E i \in 1..Len(s) : s[i] = c
    THEN CHOOSE i \in 1..Len(s) : s[i] = c /\ \A j \in 1..(i - 1) : s[j] # c
    ELSE 0

\* strings.Split(s, ",")
RECURSIVE SplitComma(_)
SplitComma(s) ==
    LET i == IndexOf(s, ",") IN
    IF i = 0 THEN <<s>>
    ELSE <<SubSeq(s, 1, i - 1)>> \o SplitComma(SubSeq(s, i + 1, Len(s)))

parsePatterns(patterns) ==
    IF patterns = <<>> THEN <<>> ELSE SplitComma(patterns)

-----------------------------------------------------------------------------
(* filepath.Match, for patterns made of literals, '*', '?' and character   *)
(* classes '[' c... ']' (no ranges, negation or escapes in the alphabet).  *)

\* the pattern is malformed: a class that is empty or never closed
RECURSIVE BadPattern(_)
BadPattern(p) ==
    IF p = <<>> THEN FALSE
    ELSE IF Head(p) = "["
         THEN LET rest == Tail(p)
                  close == IF rest = <<>> THEN 0
                           ELSE IndexOf(Tail(rest), "]")
              IN  \/ rest = <<>>
                  \/ Head(rest) = "]"
                  \/ close = 0
                  \/ BadPattern(SubSeq(rest, close + 2, Len(rest)))
         ELSE BadPattern(Tail(p))

RECURSIVE GlobMatch(_, _)
GlobMatch(p, n) ==
    IF p = <<>> THEN n = <<>>
    ELSE IF Head(p) = "*"
         THEN \/ GlobMatch(Tail(p), n)
              \/ (n # <<>> /\ Head(n) # "/" /\ GlobMatch(p, Tail(n)))
    ELSE IF Head(p) = "?"
         THEN n # <<>> /\ Head(n) # "/" /\ GlobMatch(Tail(p), Tail(n))
    ELSE IF Head(p) = "["
         THEN LET rest == Tail(p)
                  close == IndexOf(Tail(rest), "]") + 1
                  class == {rest[i] : i \in 1..(close - 1)}
              IN  n # <<>> /\ Head(n) \in class
                  /\ GlobMatch(SubSeq(rest, close + 1, Len(rest)), Tail(n))
    ELSE n # <<>> /\ Head(n) = Head(p) /\ GlobMatch(Tail(p), Tail(n))

\* (matched, err) of filepath.Match: ErrBadPattern whenever the pattern is malformed
\* a match that compares the pattern with the name as plain text
literalMatch(pattern, name) == [matched |-> pattern = name, err |-> FALSE]

filepathMatch(pattern, name) ==
    IF BadPattern(pattern) THEN [matched |-> FALSE, err |-> TRUE]
    ELSE [matched |-> GlobMatch(pattern, name), err |-> FALSE]

RECURSIVE matchesAnyPattern(_, _)
matchesAnyPattern(name, patterns) ==
    IF patterns = <<>> THEN [matched |-> FALSE, err |-> FALSE]
    ELSE LET r == filepathMatch(Head(patterns), name) IN
         IF r.err THEN [matched |-> FALSE, err |-> TRUE]
         ELSE IF r.matched THEN [matched |-> TRUE, err |-> FALSE]
         ELSE matchesAnyPattern(name, Tail(patterns))

isHidden(name) ==
    /\ name # <<".">>
    /\ name # <<".", ".">>
    /\ Len(name) > 0
    /\ name[1] = "."

\* a count of the components of the path rather than of its separators
countPathComponents(path) == Len(path)

\* path is a relative path as a tuple of components: "." is the empty tuple
countPathSeparators(path) ==
    IF path = <<>> THEN 0 ELSE Len(path) - 1

-----------------------------------------------------------------------------
(* The disk: local trees, and the trees repository clones materialise *)

NilContent == [nil |-> TRUE, len |-> 0, toks |-> 0]
\* a byte string of n bytes that the tokenizer encodes into t tokens
Bytes(n, t) == [nil |-> FALSE, len |-> n, toks |-> t]

File(n, t) == [isDir |-> FALSE, size |-> n, content |-> Bytes(n, t), statOK |-> TRUE,
               infoOK |-> TRUE, listable |-> FALSE, readable |-> TRUE, ignore |-> {}]
Dir == [isDir |-> TRUE, size |-> 64, content |-> NilContent, statOK |-> TRUE,
        infoOK |-> TRUE, listable |-> TRUE, readable |-> FALSE, ignore |-> {}]

LocalFS ==
    <<"r">> :> Dir @@
    <<"r", ".gitignore">> :> [File(3, 1) EXCEPT !.ignore = {"ig"}] @@
    <<"r", ".secret">> :> File(7, 2) @@
    <<"r", "a.go">> :> File(50, 9) @@
    <<"r", "b.txt">> :> File(30, 6) @@
    <<"r", "c.go">> :> File(200, 40) @@
    <<"r", "Makefile">> :> File(12, 3) @@
    <<"r", "n.xyz">> :> File(5, 1) @@
    <<"r", "z.go">> :> File(0, 0) @@
    <<"r", "u.go">> :> [File(8, 2) EXCEPT !.readable = FALSE] @@
    <<"r", "m.go">> :> [File(9, 2) EXCEPT !.infoOK = FALSE] @@
    <<"r", ".h">> :> Dir @@
    <<"r", ".h", "x.go">> :> File(20, 4) @@
    <<"r", "ig">> :> Dir @@
    <<"r", "ig", "y.go">> :> File(10, 2) @@
    <<"r", "target">> :> Dir @@
    <<"r", "target", "o.go">> :> File(15, 3) @@
    <<"r", "lock">> :> [Dir EXCEPT !.listable = FALSE] @@
    <<"r", "lock", "k.go">> :> File(6, 1) @@
    <<"r", "d">> :> Dir @@
    <<"r", "d", "e.go">> :> File(11, 2) @@
    <<"r", "d", "ig">> :> File(4, 1) @@
    <<"r", "d", "s">> :> Dir @@
    <<"r", "d", "s", "f.go">> :> File(12, 2) @@
    <<"r", "d", "s", "u">> :> Dir @@
    <<"r", "d", "s", "u", "g.go">> :> File(13, 3) @@
    <<"q">> :> Dir @@
    <<"q", ".secret">> :> File(7, 2) @@
    <<"q", "a.go">> :> File(50, 9) @@
    <<"q", "b.txt">> :> File(30, 6) @@
    <<"v">> :> Dir @@
    <<"v", ".h">> :> Dir @@
    <<"v", ".h", "x.go">> :> File(20, 4) @@
    <<"v", "a.go">> :> File(50, 9) @@
    <<"v", "u.go">> :> [File(8, 2) EXCEPT !.readable = FALSE] @@
    <<"v", "z.go">> :> File(0, 0) @@
    <<"w">> :> [Dir EXCEPT !.statOK = FALSE]

\* what a successful clone of each repository leaves in its temporary directory
RepoTree ==
    [g \in {"g1"} |->
        <<>> :> Dir @@
        <<".git">> :> Dir @@
        <<".git", "config">> :> File(9, 2) @@
        <<"a.go">> :> File(40, 8) @@
        <<"node_modules">> :> Dir @@
        <<"node_modules", "j.js">> :> File(25, 5)] @@
    [g \in {"g3"} |->
        \* a clone whose directory cannot be accessed afterwards
        <<>> :> [Dir EXCEPT !.statOK = FALSE] @@
        <<"a.go">> :> File(40, 8)]

\* repositories whose clone fails
BrokenRepos == {"g2"}
Repos == DOMAIN RepoTree \cup BrokenRepos

\* the name os.MkdirTemp gives the k-th temporary directory of the run
TmpName(k) == CASE k = 1 -> "t1" [] k = 2 -> "t2" [] OTHER -> "t3"

\* the files visible when the temporary directories tmp exist; tmp is a set of
\* [name, repo]: a directory and the repository cloned into it
Disk(tmp) ==
    LET clonePaths == UNION {{<<t.name>> \o rp : rp \in DOMAIN RepoTree[t.repo]} : t \in tmp}
        repoOf(name) == (CHOOSE t \in tmp : t.name = name).repo
    IN  [p \in clonePaths |-> RepoTree[repoOf(Head(p))][Tail(p)]] @@ LocalFS

Last(s) == s[Len(s)]

ChildNames(disk, dir) ==
    {Last(p) : p \in {q \in DOMAIN disk : Len(q) = Len(dir) + 1
                                           /\ SubSeq(q, 1, Len(dir)) = dir}}

\* os.ReadDir order: entries sorted by file name
RECURSIVE SortedNames(_)
SortedNames(S) ==
    IF S = {} THEN <<>>
    ELSE LET m == CHOOSE x \in S : \A y \in S \ {x} : StrLess(Chars[x], Chars[y])
         IN  <<m>> \o SortedNames(S \ {m})

-----------------------------------------------------------------------------
(* Language table: the lookup maps built by loadLanguageData and          *)
(* GetLanguageForFile (exact file name first, then the extension).         *)

LangExtensions == {Chars[".go"], Chars[".js"], Chars[".txt"]}
LangFilenames == {Chars["Makefile"]}

\* filepath.Ext: the suffix beginning at the final dot, empty when there is none
Ext(name) ==
    IF \E i \in 1..Len(name) : name[i] = "."
    THEN LET i == CHOOSE k \in 1..Len(name) :
                      name[k] = "." /\ \A j \in (k + 1)..Len(name) : name[j] # "."
         IN  SubSeq(name, i, Len(name))
    ELSE <<>>

GetLanguageForFile(path) ==
    LET base == Chars[Last(path)] IN
    base \in LangFilenames \/ Ext(base) \in LangExtensions

-----------------------------------------------------------------------------
(* Filter engine and local walk (processor.go) *)

NewFileInfo(path, size, content) ==
    [Path |-> path, Size |-> size, IsDir |-> FALSE, Content |-> content,
     TokenCount |-> 0, Error |-> NoErr]

\* the ignore matcher of a walk: loaded from <root>/.gitignore unless --no-ignore
loadIgnoreMatcher(disk, root) ==
    LET gitIgnorePath == root \o <<".gitignore">> IN
    IF ~noIgnore /\ gitIgnorePath \in DOMAIN disk /\ disk[gitIgnorePath].statOK
    THEN [loaded |-> TRUE, names |-> disk[gitIgnorePath].ignore]
    ELSE [loaded |-> FALSE, names |-> {}]

\* a pattern without a slash ignores every entry of that name, at any depth
ignoreMatch(matcher, relPath, isDir) ==
    relPath # <<>> /\ Last(relPath) \in matcher.names

\* rule 4b of the walk and of shouldKeepFile: include globs, else language, else all
includeRule(path, baseName) ==
    LET parsedIncludes == parsePatterns(Chars[includePatterns])
        hasExplicitIncludes == Len(parsedIncludes) > 0
    IN  IF hasExplicitIncludes
        THEN matchesAnyPattern(baseName, parsedIncludes)
        ELSE IF langData # "nil"
        THEN [matched |-> GetLanguageForFile(path), err |-> FALSE]
        ELSE [matched |-> TRUE, err |-> FALSE]

\* a callback that puts directories through the include and size rules as well
walkCallbackFilteringDirectories(disk, root, matcher, path) ==
    LET d == disk[path]
        baseName == Chars[Last(path)]
        isDir == d.isDir
        relPath == SubSeq(path, Len(root) + 1, Len(path))
        currentDepth == countPathSeparators(relPath)
        excluded == matchesAnyPattern(baseName, parsePatterns(Chars[excludePatterns]))
        included == includeRule(path, baseName)
        prune == IF isDir THEN "SkipDir" ELSE "skip"
    IN  IF ~showHidden /\ isHidden(baseName)
        THEN [act |-> prune, rule |-> "hidden", info |-> FALSE]
        ELSE IF matcher.loaded /\ ignoreMatch(matcher, relPath, isDir)
        THEN [act |-> prune, rule |-> "ignore", info |-> FALSE]
        ELSE IF maxDepth > 0 /\ currentDepth >= maxDepth /\ isDir
        THEN [act |-> "SkipDir", rule |-> "depth", info |-> FALSE]
        ELSE IF excluded.matched
        THEN [act |-> prune, rule |-> "exclude", info |-> FALSE]
        ELSE IF ~included.matched
        THEN [act |-> prune, rule |-> "include", info |-> FALSE]
        ELSE IF ~d.infoOK
        THEN [act |-> prune, rule |-> "info", info |-> TRUE]
        ELSE IF maxSizeBytes > 0 /\ d.size > maxSizeBytes
        THEN [act |-> prune, rule |-> "size", info |-> TRUE]
        ELSE [act |-> IF isDir THEN "descend" ELSE "keep", rule |-> "none",
              info |-> TRUE]

\* the callback walkDirectory hands to filepath.WalkDir, for one entry below the
\* root: what it returns (act), the rule that decided, and whether d.Info() ran
walkCallback(disk, root, matcher, path) ==
    LET d == disk[path]
        baseName == Chars[Last(path)]
        isDir == d.isDir
        relPath == SubSeq(path, Len(root) + 1, Len(path))
        currentDepth == countPathSeparators(relPath)
        excluded == matchesAnyPattern(baseName, parsePatterns(Chars[excludePatterns]))
        included == includeRule(path, baseName)
        prune == IF isDir THEN "SkipDir" ELSE "skip"
    IN  IF ~showHidden /\ isHidden(baseName)
        THEN [act |-> prune, rule |-> "hidden", info |-> FALSE]
        ELSE IF matcher.loaded /\ ignoreMatch(matcher, relPath, isDir)
        THEN [act |-> prune, rule |-> "ignore", info |-> FALSE]
        ELSE IF maxDepth > 0 /\ currentDepth >= maxDepth /\ isDir
        THEN [act |-> "SkipDir", rule |-> "depth", info |-> FALSE]
        ELSE IF excluded.matched
        THEN [act |-> prune, rule |-> "exclude", info |-> FALSE]
        ELSE IF isDir
        THEN [act |-> "descend", rule |-> "none", info |-> FALSE]
        ELSE IF ~included.matched
        THEN [act |-> "skip", rule |-> "include", info |-> FALSE]
        ELSE IF ~d.infoOK
        THEN [act |-> "skip", rule |-> "info", info |-> TRUE]
        ELSE IF maxSizeBytes > 0 /\ d.size > maxSizeBytes
        THEN [act |-> "skip", rule |-> "size", info |-> TRUE]
        ELSE [act |-> "keep", rule |-> "none", info |-> TRUE]

\* filepath.WalkDir below the root: depth first, entries of a directory by name;
\* a directory is listed unless the callback returned SkipDir or ReadDir fails
RECURSIVE walkEntry(_, _, _, _), walkEntries(_, _, _, _, _)
\* a walk that lists a directory whatever the callback returned for it
walkEntryIgnoringSkipDir(disk, root, matcher, path) ==
    IF disk[path].isDir
    THEN IF ~disk[path].listable THEN <<>>
         ELSE walkEntries(disk, root, matcher, path, SortedNames(ChildNames(disk, path)))
    ELSE IF walkCallback(disk, root, matcher, path).act = "keep"
         THEN <<NewFileInfo(path, disk[path].size, NilContent)>>
         ELSE <<>>

\* a walk of a directory's entries that ends at the first file it does not keep
walkEntriesStoppingAtReject(disk, root, matcher, dir, names) ==
    IF names = <<>> THEN <<>>
    ELSE LET path == dir \o <<Head(names)>>
             kept == walkEntry(disk, root, matcher, path)
         IN  IF ~disk[path].isDir /\ kept = <<>> THEN <<>>
             ELSE kept \o walkEntries(disk, root, matcher, dir, Tail(names))

walkEntry(disk, root, matcher, path) ==
    LET cb == walkCallback(disk, root, matcher, path) IN
    IF disk[path].isDir
    THEN IF cb.act = "SkipDir" \/ ~disk[path].listable THEN <<>>
         ELSE walkEntries(disk, root, matcher, path, SortedNames(ChildNames(disk, path)))
    ELSE IF cb.act = "keep"
         THEN <<NewFileInfo(path, disk[path].size, NilContent)>>
         ELSE <<>>
walkEntries(disk, root, matcher, dir, names) ==
    IF names = <<>> THEN <<>>
    ELSE walkEntry(disk, root, matcher, dir \o <<Head(names)>>)
         \o walkEntries(disk, root, matcher, dir, Tail(names))

\* a walk that fails as soon as an entry below the root cannot be read
walkDirectoryFailingOnUnreadable(disk, root) ==
    IF \E p \in DOMAIN disk :
           /\ Len(p) > Len(root) /\ SubSeq(p, 1, Len(root)) = root
           /\ (~disk[p].infoOK \/ (disk[p].isDir /\ ~disk[p].listable))
    THEN [files |-> <<>>, err |-> "error walking directory"]
    ELSE [files |-> walkEntries(disk, root, loadIgnoreMatcher(disk, root), root,
                                SortedNames(ChildNames(disk, root))),
          err |-> NoErr]

\* the callback never returns an error other than SkipDir, so the walk never fails
walkDirectory(disk, root) ==
    LET matcher == loadIgnoreMatcher(disk, root) IN
    [files |-> IF disk[root].listable
               THEN walkEntries(disk, root, matcher, root,
                                SortedNames(ChildNames(disk, root)))
               ELSE <<>>,
     err |-> NoErr]

\* a single-file filter without the size ceiling
shouldKeepFileWithoutSizeCeiling(disk, path) ==
    LET baseName == Chars[Last(path)]
        excluded == matchesAnyPattern(baseName, parsePatterns(Chars[excludePatterns]))
        included == includeRule(path, baseName)
    IN  IF ~showHidden /\ isHidden(baseName) THEN [keep |-> FALSE, err |-> NoErr]
        ELSE IF excluded.err THEN [keep |-> FALSE, err |-> "exclude pattern error"]
        ELSE IF excluded.matched THEN [keep |-> FALSE, err |-> NoErr]
        ELSE IF included.err THEN [keep |-> FALSE, err |-> "include pattern error"]
        ELSE IF ~included.matched THEN [keep |-> FALSE, err |-> NoErr]
        ELSE [keep |-> TRUE, err |-> NoErr]

shouldKeepFile(disk, path) ==
    LET info == disk[path]
        baseName == Chars[Last(path)]
        excluded == matchesAnyPattern(baseName, parsePatterns(Chars[excludePatterns]))
        included == includeRule(path, baseName)
    IN  IF ~showHidden /\ isHidden(baseName) THEN [keep |-> FALSE, err |-> NoErr]
        ELSE IF excluded.err THEN [keep |-> FALSE, err |-> "exclude pattern error"]
        ELSE IF excluded.matched THEN [keep |-> FALSE, err |-> NoErr]
        ELSE IF included.err THEN [keep |-> FALSE, err |-> "include pattern error"]
        ELSE IF ~included.matched THEN [keep |-> FALSE, err |-> NoErr]
        ELSE IF maxSizeBytes > 0 /\ info.size > maxSizeBytes
        THEN [keep |-> FALSE, err |-> NoErr]
        ELSE [keep |-> TRUE, err |-> NoErr]

processLocalPath(disk, path) ==
    IF path \notin DOMAIN disk \/ ~disk[path].statOK
    THEN [files |-> <<>>, err |-> "error accessing path"]
    ELSE IF disk[path].isDir THEN walkDirectory(disk, path)
    ELSE LET k == shouldKeepFile(disk, path) IN
         [files |-> IF k.err = NoErr /\ k.keep
                    THEN <<NewFileInfo(path, disk[path].size, NilContent)>>
                    ELSE <<>>,
          err |-> NoErr]

-----------------------------------------------------------------------------
(* The web and the crawler *)

Pages == {"P", "Q", "R", "S"}

\* a URL string scheme://page#frag, as the tuple of its parts; like a local path,
\* it is a tuple of strings, and FileInfo.Path holds either
URL(scheme, page, frag) == <<scheme, page, frag>>
SchemeOf(url) == url[1]
PageOf(url) == url[2]
NoURL == URL("", "", "")

\* an <a href> of a page: the href's kind and, for a resolvable target, the URL
\* parsedURL.Parse(link) resolves it to
Href(scheme, page, frag) == [kind |-> "url", url |-> URL(scheme, page, frag)]
HrefEmpty == [kind |-> "empty", url |-> NoURL]
HrefFragment == [kind |-> "fragment", url |-> NoURL]
HrefMailto == [kind |-> "mailto", url |-> NoURL]
HrefJavascript == [kind |-> "javascript", url |-> NoURL]
HrefUnresolvable == [kind |-> "unresolvable", url |-> NoURL]

\* what the server answers for a page: kind is one of
\*   ok | fetcherr (http.Get fails) | 404 | nothtml | bodyerr | convfail
WebPage(kind, md, links) ==
    [getOK |-> kind # "fetcherr",
     status |-> IF kind = "404" THEN 404 ELSE 200,
     html |-> kind # "nothtml",
     bodyOK |-> kind # "bodyerr",
     convOK |-> kind # "convfail",
     markdown |-> md,
     links |-> links]

PageKinds == {"ok", "fetcherr", "404", "nothtml", "bodyerr", "convfail"}

\* a clean URL that keeps the fragment
cleanURLKeepingFragment(startURL) == startURL

\* url.Parse(startURL), Fragment = "", String()
cleanURLOf(startURL) == URL(SchemeOf(startURL), PageOf(startURL), "")

\* line 111: the schemes whose links are followed
schemeFollowed(scheme) == scheme = "http" \/ scheme = "https://"

\* line 99: hrefs dropped before resolution; line 105: hrefs that do not resolve
hrefSkipped(link) == link.kind \in {"empty", "fragment", "mailto", "javascript"}

\* a recursive call made at the caller's own depth
sameDepth(currentDepth) == currentDepth

\* line 113: the depth handed to the recursive call
nextDepth(currentDepth) == currentDepth + 1

\* crawl state shared by one invocation: the visited map, and the requests made
EmptyCrawl == [visited |-> {}, fetched |-> <<>>]

RECURSIVE processWebURLRecursive(_, _, _, _, _), crawlLinks(_, _, _, _, _)
\* an Each callback that gives up on the remaining links of the page once the
\* target of a followed link could not be fetched or read
crawlLinksStoppingAtFailure(w, links, currentDepth, maxD, st) ==
    IF links = <<>> THEN [files |-> <<>>, st |-> st]
    ELSE LET link == Head(links)
             follow == /\ ~hrefSkipped(link)
                       /\ link.kind # "unresolvable"
                       /\ schemeFollowed(SchemeOf(link.url))
             res == w[PageOf(link.url)]
             failed == ~res.getOK \/ res.status < 200 \/ res.status >= 300
                       \/ ~res.html \/ ~res.bodyOK
             r1 == IF follow
                   THEN processWebURLRecursive(w, link.url, nextDepth(currentDepth),
                                               maxD, st)
                   ELSE [files |-> <<>>, err |-> NoErr, st |-> st]
             r2 == IF follow /\ failed
                   THEN [files |-> <<>>, st |-> r1.st]
                   ELSE crawlLinks(w, Tail(links), currentDepth, maxD, r1.st)
         IN  [files |-> r1.files \o r2.files, st |-> r2.st]

\* a crawl that appends the page's own entry after the entries of its links
processWebURLRecursivePostOrder(w, startURL, currentDepth, maxD, st) ==
    LET cleanURL == cleanURLOf(startURL)
        none == [files |-> <<>>, err |-> NoErr, st |-> st]
    IN  IF currentDepth > maxD THEN none
        ELSE IF cleanURL \in st.visited THEN none
        ELSE
        LET st1 == [visited |-> st.visited \cup {cleanURL},
                    fetched |-> Append(st.fetched,
                                       [url |-> cleanURL, depth |-> currentDepth])]
            res == w[PageOf(cleanURL)]
            skipped == [files |-> <<>>, err |-> NoErr, st |-> st1]
        IN  IF ~res.getOK THEN skipped
            ELSE IF res.status < 200 \/ res.status >= 300 THEN skipped
            ELSE IF ~res.html THEN skipped
            ELSE IF ~res.bodyOK THEN skipped
            ELSE
            LET currentFiles ==
                    IF res.convOK
                    THEN <<NewFileInfo(cleanURL, res.markdown.len, res.markdown)>>
                    ELSE <<>>
            IN  IF currentDepth < maxD
                THEN LET r == crawlLinks(w, res.links, currentDepth, maxD, st1)
                     IN  [files |-> r.files \o currentFiles, err |-> NoErr, st |-> r.st]
                ELSE [files |-> currentFiles, err |-> NoErr, st |-> st1]

\* a crawl that skips a page altogether, links included, when its conversion fails
processWebURLRecursiveSkippingUnconverted(w, startURL, currentDepth, maxD, st) ==
    LET cleanURL == cleanURLOf(startURL)
        none == [files |-> <<>>, err |-> NoErr, st |-> st]
    IN  IF currentDepth > maxD THEN none
        ELSE IF cleanURL \in st.visited THEN none
        ELSE
        LET st1 == [visited |-> st.visited \cup {cleanURL},
                    fetched |-> Append(st.fetched,
                                       [url |-> cleanURL, depth |-> currentDepth])]
            res == w[PageOf(cleanURL)]
            skipped == [files |-> <<>>, err |-> NoErr, st |-> st1]
        IN  IF ~res.getOK THEN skipped
            ELSE IF res.status < 200 \/ res.status >= 300 THEN skipped
            ELSE IF ~res.html THEN skipped
            ELSE IF ~res.bodyOK THEN skipped
            ELSE IF ~res.convOK THEN skipped
            ELSE
            LET currentFiles ==
                    IF res.convOK
                    THEN <<NewFileInfo(cleanURL, res.markdown.len, res.markdown)>>
                    ELSE <<>>
            IN  IF currentDepth < maxD
                THEN LET r == crawlLinks(w, res.links, currentDepth, maxD, st1)
                     IN  [files |-> currentFiles \o r.files, err |-> NoErr, st |-> r.st]
                ELSE [files |-> currentFiles, err |-> NoErr, st |-> st1]

processWebURLRecursive(w, startURL, currentDepth, maxD, st) ==
    LET cleanURL == cleanURLOf(startURL)
        none == [files |-> <<>>, err |-> NoErr, st |-> st]
    IN  IF currentDepth > maxD THEN none
        ELSE IF cleanURL \in st.visited THEN none
        ELSE
        LET st1 == [visited |-> st.visited \cup {cleanURL},
                    fetched |-> Append(st.fetched,
                                       [url |-> cleanURL, depth |-> currentDepth])]
            res == w[PageOf(cleanURL)]
            skipped == [files |-> <<>>, err |-> NoErr, st |-> st1]
        IN  IF ~res.getOK THEN skipped
            ELSE IF res.status < 200 \/ res.status >= 300 THEN skipped
            ELSE IF ~res.html THEN skipped
            ELSE IF ~res.bodyOK THEN skipped
            ELSE
            LET currentFiles ==
                    IF res.convOK
                    THEN <<NewFileInfo(cleanURL, res.markdown.len, res.markdown)>>
                    ELSE <<>>
            IN  IF currentDepth < maxD
                THEN LET r == crawlLinks(w, res.links, currentDepth, maxD, st1)
                     IN  [files |-> currentFiles \o r.files, err |-> NoErr, st |-> r.st]
                ELSE [files |-> currentFiles, err |-> NoErr, st |-> st1]

\* the Each callback over a[href], in document order
crawlLinks(w, links, currentDepth, maxD, st) ==
    IF links = <<>> THEN [files |-> <<>>, st |-> st]
    ELSE LET link == Head(links)
             follow == /\ ~hrefSkipped(link)
                       /\ link.kind # "unresolvable"
                       /\ schemeFollowed(SchemeOf(link.url))
             r1 == IF follow
                   THEN processWebURLRecursive(w, link.url, nextDepth(currentDepth),
                                               maxD, st)
                   ELSE [files |-> <<>>, err |-> NoErr, st |-> st]
             r2 == crawlLinks(w, Tail(links), currentDepth, maxD, r1.st)
         IN  [files |-> r1.files \o r2.files, st |-> r2.st]

firstResult(r) ==
    IF r.err # NoErr THEN [files |-> <<>>, err |-> r.err, st |-> r.st]
    ELSE IF Len(r.files) = 0
    THEN [files |-> <<>>, err |-> "no content generated", st |-> r.st]
    ELSE [files |-> <<r.files[1]>>, err |-> NoErr, st |-> r.st]

\* an entry point that lets the crawl follow the links of the start page
processWebURLFollowingLinks(w, url) ==
    firstResult(processWebURLRecursive(w, url, 0, 1, EmptyCrawl))

processWebURL(w, url) ==
    firstResult(processWebURLRecursive(w, url, 0, 0, EmptyCrawl))

-----------------------------------------------------------------------------
(* Inputs and their classification (main.go, git.go) *)

\* an input string, by the features the classifier reads: its prefix, whether
\* it ends in ".git", and what it denotes
LocalInput(path) ==
    [prefix |-> "", dotGit |-> FALSE, path |-> path, url |-> NoURL, repo |-> ""]
WebInput(scheme, page, frag) ==
    [prefix |-> IF scheme = "http" THEN "http://" ELSE "https://", dotGit |-> FALSE, path |-> <<>>,
     url |-> URL(scheme, page, frag), repo |-> ""]
SSHGitInput(repo) ==
    [prefix |-> "git@", dotGit |-> TRUE, path |-> <<>>, url |-> NoURL, repo |-> repo]
\* https://host/repo.git: the URL of repository repo, served as page on the web
HTTPGitInput(repo, page) ==
    [prefix |-> "https://", dotGit |-> TRUE, path |-> <<>>,
     url |-> URL("https", page, ""), repo |-> repo]

isWebURL(input) == input.prefix = "http://" \/ input.prefix = "https://"
isGitURL(input) == input.dotGit \/ input.prefix = "git@"

\* a clone that leaves its directory behind when it fails
cloneGitRepoKeepingFailedClone(repo, ever) ==
    LET tempDir == TmpName(Cardinality(ever) + 1) IN
    IF repo \in BrokenRepos
    THEN [tempDir |-> "", err |-> "failed to clone repository",
          created |-> tempDir, kept |-> TRUE]
    ELSE [tempDir |-> tempDir, err |-> NoErr, created |-> tempDir, kept |-> TRUE]

\* git.go cloneGitRepo: the temporary directory it creates (created), whether that
\* directory is still on disk when it returns (kept), and its results
cloneGitRepo(repo, ever) ==
    LET tempDir == TmpName(Cardinality(ever) + 1) IN
    IF repo \in BrokenRepos
    THEN [tempDir |-> "", err |-> "failed to clone repository",
          created |-> tempDir, kept |-> FALSE]
    ELSE [tempDir |-> tempDir, err |-> NoErr, created |-> tempDir, kept |-> TRUE]

NoClone == [tempDir |-> "", err |-> NoErr, created |-> "", kept |-> FALSE]

\* the temporary directories on disk, each with the repository cloned into it
OnDisk(ever, names) == {t \in ever : t.name \in names /\ t.repo \in DOMAIN RepoTree}

\* what one iteration of the input loop has when it reaches the error check
discovered(r, fetched, clone, registered) ==
    [files |-> r.files, err |-> r.err, fetched |-> fetched, clone |-> clone,
     registered |-> registered]

crawled(r) == discovered(r, r.st.fetched, NoClone, FALSE)

cloned(input, c) ==
    IF c.err # NoErr
    THEN discovered([files |-> <<>>, err |-> c.err], <<>>, c, FALSE)
    ELSE discovered(processLocalPath(
                        Disk(OnDisk(tmpEver \cup {[name |-> c.created,
                                                   repo |-> input.repo]},
                                    tmpOnDisk \cup {c.created})),
                        <<c.tempDir>>),
                    <<>>, c, TRUE)

\* an input loop whose crawls share one visited map: a crawl starts from the
\* URLs the earlier inputs of the run have requested
processInputSharingVisited(input) ==
    IF isWebURL(input)
    THEN crawled(IF traverseLinks
                 THEN processWebURLRecursive(web, input.url, 0, linkDepth,
                          [visited |-> {fetchLog[k].url : k \in 1..Len(fetchLog)},
                           fetched |-> <<>>])
                 ELSE processWebURL(web, input.url))
    ELSE IF isGitURL(input)
    THEN cloned(input, cloneGitRepo(input.repo, tmpEver))
    ELSE discovered(processLocalPath(Disk(OnDisk(tmpEver, tmpOnDisk)), input.path),
                    <<>>, NoClone, FALSE)

\* main.go 125-158: one iteration of the input loop up to the error check
processInput(input) ==
    IF isWebURL(input)
    THEN crawled(IF traverseLinks
                 THEN processWebURLRecursive(web, input.url, 0, linkDepth, EmptyCrawl)
                 ELSE processWebURL(web, input.url))
    ELSE IF isGitURL(input)
    THEN cloned(input, cloneGitRepo(input.repo, tmpEver))
    ELSE discovered(processLocalPath(Disk(OnDisk(tmpEver, tmpOnDisk)), input.path),
                    <<>>, NoClone, FALSE)

-----------------------------------------------------------------------------
(* Enrichment (main.go 170-216, tokenWorker) and aggregation (219-236) *)

\* Tokenizer.CountTokens: the number of tokens the encoder yields for the text
CountTokens(content) == content.toks

\* os.ReadFile
readFile(disk, path) ==
    IF path \in DOMAIN disk /\ ~disk[path].isDir /\ disk[path].readable
    THEN [content |-> disk[path].content, err |-> NoErr]
    ELSE [content |-> NilContent, err |-> "read error"]

\* a worker that counts what the entry carries and never reads the disk
tokenWorkerNeverReading(disk, file) ==
    IF file.IsDir \/ file.Content.nil THEN file
    ELSE [file EXCEPT !.TokenCount = CountTokens(file.Content)]

\* the body of tokenWorker's loop: the FileInfo it sends to results
tokenWorkerResult(disk, file) ==
    IF file.IsDir THEN file
    ELSE LET rd == IF ~file.Content.nil
                   THEN [content |-> file.Content, err |-> NoErr]
                   ELSE readFile(disk, file.Path)
         IN  IF rd.err # NoErr THEN [file EXCEPT !.Error = rd.err]
             ELSE IF rd.content.len > 0
             THEN [file EXCEPT !.TokenCount = CountTokens(rd.content)]
             ELSE [file EXCEPT !.TokenCount = 0]

\* an unbuffered channel
unbuffered(n) == 0

\* make(chan FileInfo, len(allFilesMaster)), lines 179 and 180
jobsCap(n) == n
resultsCap(n) == n

workerCount(threads, cpus) == IF threads <= 0 THEN cpus ELSE threads

NoFile == [Path |-> <<>>, Size |-> 0, IsDir |-> FALSE, Content |-> NilContent,
           TokenCount |-> 0, Error |-> NoErr]

RECURSIVE SumOver(_, _)
\* the sum of field f over the file entries of files
SumOver(files, f) ==
    IF files = <<>> THEN 0
    ELSE (IF Head(files).IsDir THEN 0 ELSE Head(files)[f]) + SumOver(Tail(files), f)

RECURSIVE CountFiles(_)
CountFiles(files) ==
    IF files = <<>> THEN 0
    ELSE (IF Head(files).IsDir THEN 0 ELSE 1) + CountFiles(Tail(files))

\* an aggregation that counts every entry, directories too
aggregateCountingDirs(files, noTokens) ==
    [TotalFiles |-> Len(files),
     TotalSize |-> SumOver(files, "Size"),
     TotalTokens |-> IF noTokens THEN 0 ELSE SumOver(files, "TokenCount")]

\* an aggregation that passes over the entries carrying a failure
aggregateSkippingFailed(files, noTokens) ==
    LET sound == SelectSeq(files, LAMBDA f : f.Error = NoErr) IN
    [TotalFiles |-> CountFiles(sound),
     TotalSize |-> SumOver(sound, "Size"),
     TotalTokens |-> IF noTokens THEN 0 ELSE SumOver(sound, "TokenCount")]

aggregate(files, noTokens) ==
    [TotalFiles |-> CountFiles(files),
     TotalSize |-> SumOver(files, "Size"),
     TotalTokens |-> IF noTokens THEN 0 ELSE SumOver(files, "TokenCount")]

-----------------------------------------------------------------------------
(* Output: tree view, flat list, files output, PDF (output.go, pdf.go) *)

\* FileInfo.Path holds a URL rather than a local path
isURLPath(path) == Len(path) = 3 /\ path[1] \in {"http", "https"}

RECURSIVE joinPath(_)
\* the characters of a local path: its components joined by the separator
joinPath(path) ==
    IF path = <<>> THEN <<>>
    ELSE IF Len(path) = 1 THEN Chars[path[1]]
    ELSE Chars[path[1]] \o <<"/">> \o joinPath(Tail(path))

\* the characters of FileInfo.Path, the string the sorts compare
pathString(path) ==
    IF isURLPath(path)
    THEN Chars[path[1]] \o <<":", "/", "/">> \o Chars[path[2]] \o
         (IF path[3] = "" THEN <<>> ELSE <<"#">> \o Chars[path[3]])
    ELSE joinPath(path)

\* files[i].Path < files[j].Path
pathLess(p, q) == StrLess(pathString(p), pathString(q))

RECURSIVE insertByPath(_, _)
insertByPath(f, sorted) ==
    IF sorted = <<>> THEN <<f>>
    ELSE IF pathLess(f.Path, Head(sorted).Path) THEN <<f>> \o sorted
    ELSE <<Head(sorted)>> \o insertByPath(f, Tail(sorted))

\* a consumer that takes the entries in the order the collector received them
asDelivered(files) == files

RECURSIVE sortByPath(_)
\* sort.Slice(files, func(i, j int) bool { return files[i].Path < files[j].Path })
sortByPath(files) ==
    IF files = <<>> THEN <<>>
    ELSE insertByPath(Head(files), sortByPath(Tail(files)))

\* filepath.Dir of a path
parentOf(path) == SubSeq(path, 1, Len(path) - 1)

\* one line of the rendered output
Line(kind, prefix, name, path, isDirectory, tokens, body) ==
    [kind |-> kind, prefix |-> prefix, name |-> name, path |-> path,
     isDir |-> isDirectory, tokens |-> tokens, body |-> body]
NoTokens == [shown |-> FALSE, err |-> NoErr, count |-> 0]
NoBody == [content |-> NilContent, err |-> NoErr]

RECURSIVE attachNodes(_, _, _)
\* a loop that gives up on the remaining entries at the first entry whose
\* parent is not registered
attachNodesStoppingAtOrphan(files, nodes, attached) ==
    IF files = <<>> THEN attached
    ELSE LET file == Head(files)
             parentDir == parentOf(file.Path)
         IN  IF parentDir \notin nodes
             THEN attached
             ELSE attachNodes(Tail(files),
                              IF file.IsDir THEN nodes \cup {file.Path} ELSE nodes,
                              Append(attached,
                                     [Name |-> Last(file.Path), Path |-> file.Path,
                                      IsDir |-> file.IsDir, Size |-> file.Size]))

\* the loop of buildTree: nodes holds the paths of the registered directories,
\* attached the nodes appended to their parent so far
attachNodes(files, nodes, attached) ==
    IF files = <<>> THEN attached
    ELSE LET file == Head(files)
             parentDir == parentOf(file.Path)
         IN  IF parentDir \notin nodes
             THEN attachNodes(Tail(files), nodes, attached)
             ELSE attachNodes(Tail(files),
                              IF file.IsDir THEN nodes \cup {file.Path} ELSE nodes,
                              Append(attached,
                                     [Name |-> Last(file.Path), Path |-> file.Path,
                                      IsDir |-> file.IsDir, Size |-> file.Size]))

RECURSIVE insertByName(_, _)
insertByName(n, sorted) ==
    IF sorted = <<>> THEN <<n>>
    ELSE IF StrLess(Chars[n.Name], Chars[Head(sorted).Name]) THEN <<n>> \o sorted
    ELSE <<Head(sorted)>> \o insertByName(n, Tail(sorted))

RECURSIVE sortByName(_)
sortByName(children) ==
    IF children = <<>> THEN <<>>
    ELSE insertByName(Head(children), sortByName(Tail(children)))

\* node.Children after sortChildren: the nodes attached to parent, by name
sortChildren(attached, parent) ==
    sortByName(SelectSeq(attached, LAMBDA n : parentOf(n.Path) = parent))

\* the tree as the list of its attached nodes, each under the parent its path
\* names, and the root they hang from
buildTree(files, rootPath) ==
    [root |-> rootPath, attached |-> attachNodes(sortByPath(files), {rootPath}, <<>>)]

RECURSIVE printNode(_, _, _)
\* the box-drawing connectors are written "|-- " and "+-- "
printNode(attached, children, prefix) ==
    IF children = <<>> THEN <<>>
    ELSE LET node == Head(children)
             isLast == Len(children) = 1
             connector == IF isLast THEN "+-- " ELSE "|-- "
             newPrefix == Append(prefix, IF isLast THEN "    " ELSE "|   ")
             below == sortChildren(attached, node.Path)
         IN  <<Line("tree", Append(prefix, connector), node.Name, node.Path,
                    node.IsDir, NoTokens, NoBody)>>
             \o (IF node.IsDir /\ below # <<>>
                 THEN printNode(attached, below, newPrefix)
                 ELSE <<>>)
             \o printNode(attached, Tail(children), prefix)

printTree(tree) ==
    <<Line("root", <<>>, Last(tree.root), tree.root, TRUE, NoTokens, NoBody)>>
    \o printNode(tree.attached, sortChildren(tree.attached, tree.root), <<>>)

\* the content a files section prints: the pre-loaded content or a fresh read
contentToPrint(disk, file) ==
    IF ~file.Content.nil THEN [content |-> file.Content, err |-> NoErr]
    ELSE readFile(disk, file.Path)

RECURSIVE fileSections(_, _, _)
\* the loop of printFiles over the sorted entries
fileSections(disk, files, includeTokens) ==
    IF files = <<>> THEN <<>>
    ELSE LET file == Head(files)
             tokens == IF includeTokens
                       THEN [shown |-> TRUE, err |-> file.Error,
                             count |-> IF file.Error # NoErr THEN 0
                                       ELSE file.TokenCount]
                       ELSE NoTokens
         IN  (IF file.IsDir THEN <<>>
              ELSE <<Line("file", <<>>, "", file.Path, FALSE, tokens,
                          contentToPrint(disk, file))>>)
             \o fileSections(disk, Tail(files), includeTokens)

printFiles(disk, files, includeTokens) ==
    fileSections(disk, sortByPath(files), includeTokens)

\* "Files found:" and one "- path" line per entry, main.go lines 253-260
listFiles(files) ==
    LET sorted == sortByPath(files) IN
    <<Line("header", <<>>, "Files found:", <<>>, FALSE, NoTokens, NoBody)>>
    \o [i \in 1..Len(sorted) |->
           Line("list", <<>>, "", sorted[i].Path, sorted[i].IsDir, NoTokens, NoBody)]

\* os.Stat of the input string says it is a directory
isDir(disk, input) ==
    /\ ~isWebURL(input)
    /\ input.prefix = ""
    /\ input.path \in DOMAIN disk
    /\ disk[input.path].statOK
    /\ disk[input.path].isDir

\* buildTreeString of pdf.go: a listing, directories marked
buildTreeString(files) ==
    LET sorted == sortByPath(files) IN
    <<Line("header", <<>>, "File Tree (Placeholder):", <<>>, FALSE, NoTokens, NoBody)>>
    \o [i \in 1..Len(sorted) |->
           Line("pdftree", <<>>, "", sorted[i].Path, sorted[i].IsDir, NoTokens, NoBody)]

RECURSIVE pdfSections(_, _)
\* the loop of generatePDF over the sorted entries
pdfSections(disk, files) ==
    IF files = <<>> THEN <<>>
    ELSE LET file == Head(files)
             tokens == IF file.TokenCount > 0 \/ file.Error # NoErr
                       THEN [shown |-> TRUE, err |-> file.Error,
                             count |-> IF file.Error # NoErr THEN 0
                                       ELSE file.TokenCount]
                       ELSE NoTokens
         IN  (IF file.IsDir THEN <<>>
              ELSE <<Line("pdffile", <<>>, "", file.Path, FALSE, tokens,
                          contentToPrint(disk, file))>>)
             \o pdfSections(disk, Tail(files))

generatePDF(disk, files, format) ==
    (IF format \in {"tree", "both"} THEN buildTreeString(files) ELSE <<>>)
    \o (IF format \in {"files", "both"} THEN pdfSections(disk, sortByPath(files))
        ELSE <<>>)

\* the text output of main.go lines 246-269, before the summary
generateText(disk, files, inputs, format, noTokens) ==
    (IF format \in {"tree", "both"}
     THEN IF Len(inputs) = 1 /\ isDir(disk, inputs[1])
          THEN printTree(buildTree(files, inputs[1].path))
          ELSE IF Len(files) > 0 THEN listFiles(files) ELSE <<>>
     ELSE <<>>)
    \o (IF format \in {"files", "both"} THEN printFiles(disk, files, ~noTokens)
        ELSE <<>>)

\* what the output stage writes, main.go lines 238-305
renderOutput(disk, files, inputs, format, pdf, noTokens) ==
    IF pdf THEN generatePDF(disk, files, format)
    ELSE generateText(disk, files, inputs, format, noTokens)

-----------------------------------------------------------------------------
(* rootCmd.Run as a state machine *)

\* a set-up that defers Close whenever token counting was asked for, whether
\* or not the tokenizer could be created
SetupDeferringCloseOnFailure ==
    /\ pc = "start"
    /\ IF ~disableTokens /\ ~tokenizerOK
       THEN disableTokens' = TRUE /\ closeDeferred' = TRUE
       ELSE disableTokens' = disableTokens /\ closeDeferred' = ~disableTokens
    /\ cleanupRegistered' = TRUE
    /\ pc' = "loop"
    /\ UNCHANGED <<cfgVars, envVars, discVars, poolVars, closeCalls, tmpOnDisk,
                   processedFiles, summary, outVars>>

\* lines 95-122: tokenizer creation with its deferred Close, then the deferred
\* removal of the temporary directories
Setup ==
    /\ pc = "start"
    /\ IF ~disableTokens /\ ~tokenizerOK
       THEN disableTokens' = TRUE /\ closeDeferred' = FALSE
       ELSE disableTokens' = disableTokens /\ closeDeferred' = ~disableTokens
    /\ cleanupRegistered' = TRUE
    /\ pc' = "loop"
    /\ UNCHANGED <<cfgVars, envVars, discVars, poolVars, closeCalls, tmpOnDisk,
                   processedFiles, summary, outVars>>

\* lines 160-167, with the bookkeeping of the clone made in this iteration
inputLoopBody(input, r) ==
    /\ tmpEver' = IF r.clone.created # ""
                  THEN tmpEver \cup {[name |-> r.clone.created, repo |-> input.repo]}
                  ELSE tmpEver
    /\ tmpOnDisk' = IF r.clone.created # "" /\ r.clone.kept
                    THEN tmpOnDisk \cup {r.clone.created}
                    ELSE tmpOnDisk
    /\ tempDirsToClean' = IF r.registered
                          THEN Append(tempDirsToClean, r.clone.tempDir)
                          ELSE tempDirsToClean
    /\ failedPaths' = IF r.err # NoErr THEN failedPaths + 1 ELSE failedPaths
    /\ allFilesMaster' = IF r.err # NoErr THEN allFilesMaster
                         ELSE allFilesMaster \o r.files
    /\ inputLog' = Append(inputLog,
                          [input |-> input, files |-> r.files, err |-> r.err,
                           tmp |-> r.clone.created])
    /\ fetchLog' = fetchLog \o [i \in 1..Len(r.fetched) |->
                                   [input |-> idx, url |-> r.fetched[i].url,
                                    depth |-> r.fetched[i].depth]]

\* lines 124-168: one iteration of the loop over the inputs
ProcessInput ==
    /\ pc = "loop"
    /\ idx <= Len(finalInputPaths)
    /\ inputLoopBody(finalInputPaths[idx], processInput(finalInputPaths[idx]))
    /\ idx' = idx + 1
    /\ UNCHANGED <<cfgVars, envVars, poolVars, disableTokens, pc, cleanupRegistered,
                   closeDeferred, closeCalls, processedFiles, summary, outVars>>

\* an enrichment stage that may start while inputs are still to be processed
StartEnrichBeforeLoopEnds ==
    /\ pc = "loop"
    /\ IF ~disableTokens /\ tokenizerOK
       THEN /\ numWorkers' = workerCount(numThreads, numCPU)
            /\ worker' = [w \in 1..workerCount(numThreads, numCPU) |->
                              [pc |-> "recv", file |-> NoFile]]
            /\ wg' = workerCount(numThreads, numCPU)
            /\ pc' = "send"
            /\ UNCHANGED processedFiles
       ELSE /\ processedFiles' = allFilesMaster
            /\ pc' = "aggregate"
            /\ UNCHANGED <<numWorkers, worker, wg>>
    /\ UNCHANGED <<cfgVars, envVars, discVars, jobs, results, jobsClosed,
                   resultsClosed, sent, disableTokens, cleanupRegistered,
                   closeDeferred, closeCalls, tmpOnDisk, summary, outVars>>

\* lines 171-188 and 213-216: with a tokenizer, make the channels and start the
\* workers; without one, hand the collected files on unchanged
StartEnrich ==
    /\ pc = "loop"
    /\ idx > Len(finalInputPaths)
    /\ IF ~disableTokens /\ tokenizerOK
       THEN /\ numWorkers' = workerCount(numThreads, numCPU)
            /\ worker' = [w \in 1..workerCount(numThreads, numCPU) |->
                              [pc |-> "recv", file |-> NoFile]]
            /\ wg' = workerCount(numThreads, numCPU)
            /\ pc' = "send"
            /\ UNCHANGED processedFiles
       ELSE /\ processedFiles' = allFilesMaster
            /\ pc' = "aggregate"
            /\ UNCHANGED <<numWorkers, worker, wg>>
    /\ UNCHANGED <<cfgVars, envVars, discVars, jobs, results, jobsClosed,
                   resultsClosed, sent, disableTokens, cleanupRegistered,
                   closeDeferred, closeCalls, tmpOnDisk, summary, outVars>>

\* a send loop that queues every entry for the workers, directories too
SendJobQueueingDirectories ==
    /\ pc = "send"
    /\ sent < Len(allFilesMaster)
    /\ Len(jobs) < jobsCap(Len(allFilesMaster))
    /\ jobs' = Append(jobs, allFilesMaster[sent + 1])
    /\ sent' = sent + 1
    /\ UNCHANGED <<cfgVars, envVars, discVars, results, jobsClosed, resultsClosed, wg,
                   worker, numWorkers, disableTokens, pc, cleanupRegistered,
                   closeDeferred, closeCalls, tmpOnDisk, processedFiles, summary,
                   outVars>>

\* lines 192-200: the next entry goes to results (a directory) or to jobs; the
\* send blocks while the channel is full
SendJob ==
    /\ pc = "send"
    /\ sent < Len(allFilesMaster)
    /\ LET file == allFilesMaster[sent + 1] IN
       IF file.IsDir
       THEN /\ Len(results) < resultsCap(Len(allFilesMaster))
            /\ results' = Append(results, file)
            /\ UNCHANGED jobs
       ELSE /\ Len(jobs) < jobsCap(Len(allFilesMaster))
            /\ jobs' = Append(jobs, file)
            /\ UNCHANGED results
    /\ sent' = sent + 1
    /\ UNCHANGED <<cfgVars, envVars, discVars, jobsClosed, resultsClosed, wg, worker,
                   numWorkers, disableTokens, pc, cleanupRegistered, closeDeferred,
                   closeCalls, tmpOnDisk, processedFiles, summary, outVars>>

\* line 201
CloseJobs ==
    /\ pc = "send"
    /\ sent = Len(allFilesMaster)
    /\ jobsClosed' = TRUE
    /\ pc' = "wait"
    /\ UNCHANGED <<cfgVars, envVars, discVars, jobs, results, resultsClosed, wg, sent,
                   worker, numWorkers, disableTokens, cleanupRegistered,
                   closeDeferred, closeCalls, tmpOnDisk, processedFiles, summary, outVars>>

\* tokenWorker line 478: receive the next job
WorkerReceive(w) ==
    /\ pc \in {"send", "wait"}
    /\ worker[w].pc = "recv"
    /\ jobs # <<>>
    /\ worker' = [worker EXCEPT ![w] = [pc |-> "have", file |-> Head(jobs)]]
    /\ jobs' = Tail(jobs)
    /\ UNCHANGED <<cfgVars, envVars, discVars, results, jobsClosed, resultsClosed, wg,
                   sent, numWorkers, disableTokens, pc, cleanupRegistered,
                   closeDeferred, closeCalls, tmpOnDisk, processedFiles, summary, outVars>>

\* a worker that returns, sending nothing, when it cannot read a file
WorkerProcessReturningOnReadError(w) ==
    /\ pc \in {"send", "wait"}
    /\ worker[w].pc = "have"
    /\ Len(results) < resultsCap(Len(allFilesMaster))
    /\ IF tokenWorkerResult(Disk(OnDisk(tmpEver, tmpOnDisk)), worker[w].file).Error # NoErr
       THEN /\ worker' = [worker EXCEPT ![w] = [pc |-> "done", file |-> NoFile]]
            /\ wg' = wg - 1
            /\ UNCHANGED results
       ELSE /\ results' = Append(results,
                                 tokenWorkerResult(Disk(OnDisk(tmpEver, tmpOnDisk)),
                                                   worker[w].file))
            /\ worker' = [worker EXCEPT ![w] = [pc |-> "recv", file |-> NoFile]]
            /\ UNCHANGED wg
    /\ UNCHANGED <<cfgVars, envVars, discVars, jobs, jobsClosed, resultsClosed,
                   sent, numWorkers, disableTokens, pc, cleanupRegistered,
                   closeDeferred, closeCalls, tmpOnDisk, processedFiles, summary, outVars>>

\* tokenWorker lines 479-502: read, count, send the result (blocks while full)
WorkerProcess(w) ==
    /\ pc \in {"send", "wait"}
    /\ worker[w].pc = "have"
    /\ Len(results) < resultsCap(Len(allFilesMaster))
    /\ results' = Append(results,
                         tokenWorkerResult(Disk(OnDisk(tmpEver, tmpOnDisk)),
                                           worker[w].file))
    /\ worker' = [worker EXCEPT ![w] = [pc |-> "recv", file |-> NoFile]]
    /\ UNCHANGED <<cfgVars, envVars, discVars, jobs, jobsClosed, resultsClosed, wg,
                   sent, numWorkers, disableTokens, pc, cleanupRegistered,
                   closeDeferred, closeCalls, tmpOnDisk, processedFiles, summary, outVars>>

\* tokenWorker: the range loop ends when jobs is closed and drained; wg.Done()
WorkerExit(w) ==
    /\ pc \in {"send", "wait"}
    /\ worker[w].pc = "recv"
    /\ jobs = <<>>
    /\ jobsClosed
    /\ worker' = [worker EXCEPT ![w] = [pc |-> "done", file |-> NoFile]]
    /\ wg' = wg - 1
    /\ UNCHANGED <<cfgVars, envVars, discVars, jobs, results, jobsClosed,
                   resultsClosed, sent, numWorkers, disableTokens, pc,
                   cleanupRegistered, closeDeferred, closeCalls, tmpOnDisk,
                   processedFiles, summary, outVars>>

\* lines 204-205: wg.Wait() returns, close(results)
CloseResults ==
    /\ pc = "wait"
    /\ wg = 0
    /\ resultsClosed' = TRUE
    /\ pc' = "collect"
    /\ UNCHANGED <<cfgVars, envVars, discVars, jobs, results, jobsClosed, wg, sent,
                   worker, numWorkers, disableTokens, cleanupRegistered,
                   closeDeferred, closeCalls, tmpOnDisk, processedFiles, summary, outVars>>

\* lines 208-211: drain the closed results channel
Collect ==
    /\ pc = "collect"
    /\ resultsClosed
    /\ processedFiles' = results
    /\ results' = <<>>
    /\ pc' = "aggregate"
    /\ UNCHANGED <<cfgVars, envVars, discVars, jobs, jobsClosed, resultsClosed, wg,
                   sent, worker, numWorkers, disableTokens, cleanupRegistered,
                   closeDeferred, closeCalls, tmpOnDisk, summary, outVars>>

\* the directories the deferred function of lines 117-122 removes
removedByCleanup(registered, dirs) ==
    IF registered THEN {dirs[i] : i \in 1..Len(dirs)} ELSE {}

\* an aggregation step after which the temporary directories are removed, ahead
\* of the output
AggregateRemovingClones ==
    /\ pc = "aggregate"
    /\ summary' = aggregate(processedFiles, disableTokens)
    /\ tmpOnDisk' = tmpOnDisk \ removedByCleanup(cleanupRegistered, tempDirsToClean)
    /\ pc' = "output"
    /\ UNCHANGED <<cfgVars, envVars, discVars, poolVars, disableTokens,
                   cleanupRegistered, closeDeferred, closeCalls,
                   processedFiles, outVars>>

\* lines 219-236
Aggregate ==
    /\ pc = "aggregate"
    /\ summary' = aggregate(processedFiles, disableTokens)
    /\ pc' = "output"
    /\ UNCHANGED <<cfgVars, envVars, discVars, poolVars, disableTokens,
                   cleanupRegistered, closeDeferred, closeCalls, tmpOnDisk,
                   processedFiles, outVars>>

\* lines 238-305: rendering reads the entries and the summary
Output ==
    /\ pc = "output"
    /\ rendered' = renderOutput(Disk(OnDisk(tmpEver, tmpOnDisk)), processedFiles,
                                finalInputPaths, outputFormat, pdfOutput,
                                disableTokens)
    /\ received' = processedFiles
    /\ processedFiles' = sortByPath(processedFiles)
    /\ pc' = "defers"
    /\ UNCHANGED <<cfgVars, envVars, discVars, poolVars, disableTokens,
                   cleanupRegistered, closeDeferred, closeCalls, tmpOnDisk,
                   summary>>

\* Run returns: the deferred calls run, last registered first
RunDefers ==
    /\ pc = "defers"
    /\ tmpOnDisk' = tmpOnDisk \ removedByCleanup(cleanupRegistered, tempDirsToClean)
    /\ closeCalls' = IF closeDeferred THEN closeCalls + 1 ELSE closeCalls
    /\ pc' = "done"
    /\ UNCHANGED <<cfgVars, envVars, discVars, poolVars, disableTokens,
                   cleanupRegistered, closeDeferred, processedFiles, summary, outVars>>

-----------------------------------------------------------------------------
(* Initial states *)

\* the state of Run's locals before its first statement
RunStart ==
    /\ pc = "start"
    /\ idx = 1
    /\ allFilesMaster = <<>>
    /\ failedPaths = 0
    /\ tempDirsToClean = <<>>
    /\ cleanupRegistered = FALSE
    /\ closeDeferred = FALSE
    /\ closeCalls = 0
    /\ tmpOnDisk = {}
    /\ tmpEver = {}
    /\ inputLog = <<>>
    /\ fetchLog = <<>>
    /\ jobs = <<>>
    /\ results = <<>>
    /\ jobsClosed = FALSE
    /\ resultsClosed = FALSE
    /\ wg = 0
    /\ sent = 0
    /\ worker = <<>>
    /\ numWorkers = 0
    /\ processedFiles = <<>>
    /\ summary = [TotalFiles |-> 0, TotalSize |-> 0, TotalTokens |-> 0]
    /\ rendered = <<>>
    /\ received = <<>>

DefaultExcludes == "**/.git/**,**/target/**,**/node_modules/**"

ExcludeFlags == {"", "*.txt", "[,*.txt", "ta*,[ab].*", DefaultExcludes}
IncludeFlags == {"", "*.go", "?.go,Makefile", "[", "[,*.go"}
SizeCeilings == {0, 12, 50}

MdP == Bytes(20, 4)
MdQ == Bytes(10, 3)
MdR == Bytes(8, 2)
MdS == Bytes(0, 0)

LinksOfP ==
    { <<Href("http", "Q", "")>>,
      <<Href("http", "Q", ""), Href("http", "R", "")>>,
      <<Href("http", "Q", "f"), HrefMailto, Href("http", "Q", ""),
        Href("https", "R", "")>>,
      <<HrefFragment, Href("http", "P", "top"), Href("ftp", "S", ""), HrefEmpty,
        Href("http", "S", "")>> }
LinksOfQ ==
    { <<>>,
      <<Href("http", "R", "")>>,
      <<Href("http", "P", ""), Href("http", "R", "a"), Href("http", "R", "b")>> }
LinksOfR ==
    { <<Href("http", "S", "")>>,
      <<Href("http", "Q", ""), HrefJavascript, HrefUnresolvable,
        Href("http", "S", "")>> }

\* the webs explored: link structure and server behaviour vary per page
Webs ==
    { [p \in Pages |->
          CASE p = "P" -> WebPage(kp, MdP, lp)
            [] p = "Q" -> WebPage(kq, MdQ, lq)
            [] p = "R" -> WebPage(kr, MdR, lr)
            [] OTHER -> WebPage("ok", MdS, <<>>)] :
        kp \in {"ok", "convfail", "fetcherr"}, kq \in PageKinds, kr \in {"ok", "404"},
        lp \in LinksOfP, lq \in LinksOfQ, lr \in LinksOfR }

\* P -> Q -> R -> S, every page served
ChainWeb ==
    [p \in Pages |->
        CASE p = "P" -> WebPage("ok", MdP, <<Href("http", "Q", "")>>)
          [] p = "Q" -> WebPage("ok", MdQ, <<Href("http", "R", "")>>)
          [] p = "R" -> WebPage("ok", MdR, <<Href("http", "S", "")>>)
          [] OTHER -> WebPage("ok", MdS, <<>>)]

\* the same chain with Q answering 404
BrokenWeb == [ChainWeb EXCEPT !["Q"] = WebPage("404", MdQ, <<>>)]

\* filter configurations: every flag of the filter engine varies; the input is one
\* local path
WalkInputs ==
    { <<"r">>, <<"q">>, <<"r", "d">>, <<"r", ".h">>, <<"r", "a.go">>,
      <<"r", ".secret">>, <<"r", "c.go">>, <<"nope">> }

\* command lines naming a directory and a path inside it
WalkPairs ==
    { <<LocalInput(<<"r">>), LocalInput(<<"r", ".h", "x.go">>)>>,
      <<LocalInput(<<"r">>), LocalInput(<<"r", "ig">>)>>,
      <<LocalInput(<<"r">>), LocalInput(<<"r", "d", "ig">>)>>,
      <<LocalInput(<<"r", "d">>), LocalInput(<<"r", "d", "s", "u">>)>>,
      <<LocalInput(<<"r", "target">>), LocalInput(<<"r">>)>> }

InitWalk ==
    /\ RunStart
    /\ includePatterns \in IncludeFlags
    /\ excludePatterns \in ExcludeFlags
    /\ maxSizeBytes \in SizeCeilings
    /\ maxDepth \in 0..MaxDepthCfg
    /\ showHidden \in BOOLEAN
    /\ noIgnore \in BOOLEAN
    /\ langData \in {"nil", "loaded"}
    /\ traverseLinks = FALSE
    /\ linkDepth = 1
    /\ outputFormat = "both"
    /\ pdfOutput = FALSE
    /\ numThreads = 0
    /\ disableTokens = TRUE
    /\ web = ChainWeb
    /\ tokenizerOK = TRUE
    /\ numCPU = 1
    /\ finalInputPaths \in {<<LocalInput(p)>> : p \in WalkInputs} \cup WalkPairs

\* crawls: the web, the ceiling and the start URL vary; the input is one URL
InitCrawl ==
    /\ RunStart
    /\ includePatterns = ""
    /\ excludePatterns = DefaultExcludes
    /\ maxSizeBytes = 0
    /\ maxDepth = 0
    /\ showHidden = FALSE
    /\ noIgnore = FALSE
    /\ langData = "loaded"
    /\ traverseLinks \in BOOLEAN
    /\ linkDepth \in (-1)..MaxLinkDepth
    /\ outputFormat = "both"
    /\ pdfOutput = FALSE
    /\ numThreads = 0
    /\ disableTokens = TRUE
    /\ web \in Webs
    /\ tokenizerOK = TRUE
    /\ numCPU = 1
    /\ finalInputPaths \in { <<WebInput("http", "P", "")>>,
                             <<WebInput("http", "P", "f")>>,
                             <<WebInput("https", "Q", "")>> }

\* whole runs: the command line varies
RunInputs ==
    { LocalInput(<<"q">>), LocalInput(<<"v">>), LocalInput(<<"v", ".h", "x.go">>),
      LocalInput(<<"nope">>), LocalInput(<<"w">>),
      SSHGitInput("g1"), SSHGitInput("g2"), SSHGitInput("g3"),
      HTTPGitInput("g1", "S"),
      WebInput("http", "P", ""), WebInput("http", "Q", "f") }

RECURSIVE SeqsUpTo(_, _)
\* the sequences over S of length 1..n
SeqsUpTo(S, n) ==
    IF n = 0 THEN {}
    ELSE LET shorter == SeqsUpTo(S, n - 1) IN
         {<<x>> : x \in S} \cup shorter \cup {Append(q, x) : q \in shorter, x \in S}

InitRun ==
    /\ RunStart
    /\ includePatterns = ""
    /\ excludePatterns \in {DefaultExcludes, "*.txt"}
    /\ maxSizeBytes = 0
    /\ maxDepth = 0
    /\ showHidden = FALSE
    /\ noIgnore = FALSE
    /\ langData = "loaded"
    /\ traverseLinks \in BOOLEAN
    /\ linkDepth = 1
    /\ outputFormat = "both"
    /\ pdfOutput = FALSE
    /\ numThreads \in {0, 1}
    /\ disableTokens \in BOOLEAN
    /\ web \in {ChainWeb, BrokenWeb}
    /\ tokenizerOK \in BOOLEAN
    /\ numCPU = 1
    /\ finalInputPaths \in SeqsUpTo(RunInputs, MaxInputs)

\* the enrichment stage on its own: any list of entries the stage accepts.  The
\* send loop and tokenWorker handle directory entries, which the discovery code
\* at hand never produces; they are part of the stage's input domain.
EntryPool ==
    { NewFileInfo(<<"v", "a.go">>, 50, NilContent),
      NewFileInfo(<<"v", "u.go">>, 8, NilContent),
      NewFileInfo(<<"v", "z.go">>, 0, NilContent),
      NewFileInfo(URL("http", "P", ""), 20, MdP),
      [NewFileInfo(<<"v", ".h">>, 64, NilContent) EXCEPT !.IsDir = TRUE] }

InitEnrich ==
    /\ includePatterns = ""
    /\ excludePatterns = DefaultExcludes
    /\ maxSizeBytes = 0
    /\ maxDepth = 0
    /\ showHidden = FALSE
    /\ noIgnore = FALSE
    /\ langData = "loaded"
    /\ traverseLinks = FALSE
    /\ linkDepth = 1
    /\ outputFormat = "both"
    /\ pdfOutput = FALSE
    /\ \/ numThreads \in {-1, 0} /\ numCPU \in 1..MaxThreads
       \/ numThreads \in 1..MaxThreads /\ numCPU = 1
    /\ disableTokens \in BOOLEAN
    /\ tokenizerOK = TRUE
    /\ web = ChainWeb
    /\ finalInputPaths = <<>>
    /\ pc = "loop"
    /\ idx = 1
    /\ allFilesMaster \in {<<>>} \cup SeqsUpTo(EntryPool, MaxEntries)
    /\ failedPaths = 0
    /\ tempDirsToClean = <<>>
    /\ cleanupRegistered = TRUE
    /\ closeDeferred = ~disableTokens
    /\ closeCalls = 0
    /\ tmpOnDisk = {}
    /\ tmpEver = {}
    /\ inputLog = <<>>
    /\ fetchLog = <<>>
    /\ jobs = <<>>
    /\ results = <<>>
    /\ jobsClosed = FALSE
    /\ resultsClosed = FALSE
    /\ wg = 0
    /\ sent = 0
    /\ worker = <<>>
    /\ numWorkers = 0
    /\ processedFiles = <<>>
    /\ summary = [TotalFiles |-> 0, TotalSize |-> 0, TotalTokens |-> 0]
    /\ rendered = <<>>
    /\ received = <<>>

\* the scenario of a root with a.go, .secret and b.txt, walked with exclude glob
\* *.txt and include glob *.go; everything the scenario leaves open varies
InitScenario ==
    /\ RunStart
    /\ includePatterns = "*.go"
    /\ excludePatterns = "*.txt"
    /\ maxSizeBytes \in {0, 50}
    /\ maxDepth \in 0..MaxDepthCfg
    /\ showHidden = FALSE
    /\ noIgnore \in BOOLEAN
    /\ langData \in {"nil", "loaded"}
    /\ traverseLinks = FALSE
    /\ linkDepth = 1
    /\ outputFormat = "both"
    /\ pdfOutput = FALSE
    /\ numThreads \in 0..MaxThreads
    /\ numCPU = 1
    /\ disableTokens \in BOOLEAN
    /\ tokenizerOK \in BOOLEAN
    /\ web = ChainWeb
    /\ finalInputPaths = <<LocalInput(<<"q">>)>>

\* the inputs of the runs whose output is rendered: one directory, one file, a
\* directory and a page in both orders, the same directory twice
OutputInputs ==
    { <<LocalInput(<<"v">>)>>, <<LocalInput(<<"q">>)>>,
      <<LocalInput(<<"v", "a.go">>)>>, <<LocalInput(<<"r", "d">>)>>,
      <<LocalInput(<<"v">>), WebInput("http", "P", "")>>,
      <<WebInput("http", "P", ""), LocalInput(<<"v">>)>>,
      <<LocalInput(<<"q">>), LocalInput(<<"q">>)>> }

\* whole runs under every output format and destination kind
InitOutput ==
    /\ RunStart
    /\ includePatterns = ""
    /\ excludePatterns = DefaultExcludes
    /\ maxSizeBytes = 0
    /\ maxDepth = 0
    /\ showHidden \in BOOLEAN
    /\ noIgnore = FALSE
    /\ langData = "loaded"
    /\ traverseLinks = FALSE
    /\ linkDepth = 1
    /\ outputFormat \in {"tree", "files", "both"}
    /\ pdfOutput \in BOOLEAN
    /\ numThreads \in 1..MaxThreads
    /\ disableTokens \in BOOLEAN
    /\ web = ChainWeb
    /\ tokenizerOK = TRUE
    /\ numCPU = 1
    /\ finalInputPaths \in OutputInputs

\* command lines naming several inputs that meet: crawls whose link graphs
\* overlap, walks of a directory and of a directory inside it
InputRuns ==
    { <<WebInput("http", "P", ""), WebInput("http", "Q", "f")>>,
      <<WebInput("http", "P", ""), WebInput("http", "P", "")>>,
      <<WebInput("http", "Q", ""), WebInput("http", "P", "")>>,
      <<LocalInput(<<"r">>), LocalInput(<<"r", "ig">>)>>,
      <<LocalInput(<<"r", "ig">>), LocalInput(<<"r">>)>>,
      <<LocalInput(<<"r">>), LocalInput(<<"q">>), LocalInput(<<"r">>)>>,
      <<WebInput("http", "R", ""), LocalInput(<<"r">>), WebInput("http", "P", "")>>,
      <<WebInput("http", "P", ""), WebInput("http", "Q", "f"),
        LocalInput(<<"r">>), LocalInput(<<"r", "ig">>)>> }

InitInputs ==
    /\ RunStart
    /\ includePatterns = ""
    /\ excludePatterns \in {DefaultExcludes, "*.txt"}
    /\ maxSizeBytes = 0
    /\ maxDepth = 0
    /\ showHidden \in BOOLEAN
    /\ noIgnore \in BOOLEAN
    /\ langData = "loaded"
    /\ traverseLinks \in BOOLEAN
    /\ linkDepth \in 0..MaxLinkDepth
    /\ outputFormat = "both"
    /\ pdfOutput = FALSE
    /\ numThreads = 0
    /\ disableTokens = TRUE
    /\ web \in {ChainWeb, BrokenWeb}
    /\ tokenizerOK = TRUE
    /\ numCPU = 1
    /\ finalInputPaths \in InputRuns

\* the tree view on its own: any list of entries buildTree accepts, directory
\* entries and entries without a parent in the list among them
TreePool ==
    { NewFileInfo(<<"r", "a.go">>, 50, NilContent),
      NewFileInfo(<<"r", ".h", "x.go">>, 20, NilContent),
      NewFileInfo(<<"r", "ig", "y.go">>, 10, NilContent),
      NewFileInfo(<<"r", "d", "e.go">>, 11, NilContent),
      NewFileInfo(<<"r", "d", "s", "f.go">>, 12, NilContent),
      [NewFileInfo(<<"r", "d">>, 64, NilContent) EXCEPT !.IsDir = TRUE],
      [NewFileInfo(<<"r", "d", "s">>, 64, NilContent) EXCEPT !.IsDir = TRUE],
      [NewFileInfo(<<"r">>, 64, NilContent) EXCEPT !.IsDir = TRUE] }

\* lists that name no path twice
TreeLists ==
    {q \in SeqsUpTo(TreePool, MaxEntries) : \A j, k \in 1..Len(q) : q[j] = q[k] => j = k}

InitTree ==
    /\ includePatterns = ""
    /\ excludePatterns = DefaultExcludes
    /\ maxSizeBytes = 0
    /\ maxDepth = 0
    /\ showHidden = FALSE
    /\ noIgnore = FALSE
    /\ langData = "loaded"
    /\ traverseLinks = FALSE
    /\ linkDepth = 1
    /\ outputFormat \in {"tree", "files", "both"}
    /\ pdfOutput = FALSE
    /\ numThreads = 0
    /\ numCPU = 1
    /\ disableTokens = TRUE
    /\ tokenizerOK = TRUE
    /\ web = ChainWeb
    /\ finalInputPaths = <<LocalInput(<<"r">>)>>
    /\ pc = "loop"
    /\ idx = 2
    /\ allFilesMaster \in {<<>>} \cup TreeLists
    /\ failedPaths = 0
    /\ tempDirsToClean = <<>>
    /\ cleanupRegistered = TRUE
    /\ closeDeferred = FALSE
    /\ closeCalls = 0
    /\ tmpOnDisk = {}
    /\ tmpEver = {}
    /\ inputLog = <<>>
    /\ fetchLog = <<>>
    /\ jobs = <<>>
    /\ results = <<>>
    /\ jobsClosed = FALSE
    /\ resultsClosed = FALSE
    /\ wg = 0
    /\ sent = 0
    /\ worker = <<>>
    /\ numWorkers = 0
    /\ processedFiles = <<>>
    /\ summary = [TotalFiles |-> 0, TotalSize |-> 0, TotalTokens |-> 0]
    /\ rendered = <<>>
    /\ received = <<>>

DiscoverNext == Setup \/ ProcessInput

EnrichNext ==
    \/ StartEnrich
    \/ SendJob
    \/ CloseJobs
    \/ \E w \in DOMAIN worker : WorkerReceive(w)
    \/ \E w \in DOMAIN worker : WorkerProcess(w)
    \/ \E w \in DOMAIN worker : WorkerExit(w)
    \/ CloseResults
    \/ Collect
    \/ Aggregate

\* from the collected entries to the rendered output, token counting disabled
TreeNext == StartEnrich \/ Aggregate \/ Output

Next == DiscoverNext \/ EnrichNext \/ Output \/ RunDefers

Spec == InitRun /\ [][Next]_vars
SpecWalk == InitWalk /\ [][DiscoverNext]_vars
SpecCrawl == InitCrawl /\ [][DiscoverNext]_vars
SpecScenario == InitScenario /\ [][Next]_vars
SpecOutput == InitOutput /\ [][Next]_vars
SpecInputs == InitInputs /\ [][DiscoverNext]_vars
SpecTree == InitTree /\ [][TreeNext]_vars
SpecEnrich == InitEnrich /\ [][EnrichNext]_vars
\* the Go scheduler runs a goroutine that can take a step
SpecEnrichFair == SpecEnrich /\ WF_vars(EnrichNext)

-----------------------------------------------------------------------------
(* Properties of the local filter and walk *)

\* the disk as the run sees it now
diskNow == Disk(OnDisk(tmpEver, tmpOnDisk))

\* path lies strictly below directory D
Below(D, path) == Len(path) > Len(D) /\ SubSeq(path, 1, Len(D)) = D

\* the four conditions on a kept file entry, each stated on the entry itself
passesEveryRule(f) ==
    LET base == Chars[Last(f.Path)]
        excl == parsePatterns(Chars[excludePatterns])
        incl == parsePatterns(Chars[includePatterns])
    IN  /\ (showHidden \/ base = <<>> \/ base[1] # ".")
        /\ \A k \in 1..Len(excl) : ~filepathMatch(excl[k], base).matched
        /\ (Len(incl) > 0 => \E k \in 1..Len(incl) : filepathMatch(incl[k], base).matched)
        /\ (maxSizeBytes > 0 => f.Size <= maxSizeBytes)

\* C1: every file entry a local walk or a single-file input returns has a base
\* name that is not hidden (unless hidden entries are shown), matches none of the
\* configured exclude globs, matches an include glob when includes are
\* configured, and has a size within the positive size ceiling.
C1_KeptEntriesPassEveryRule ==
    \A i \in 1..Len(inputLog) :
        \A j \in 1..Len(inputLog[i].files) : passesEveryRule(inputLog[i].files[j])

\* the directories below root for which the walk's callback returns SkipDir
prunedDirs(disk, root) ==
    IF root \in DOMAIN disk /\ disk[root].isDir /\ disk[root].statOK
    THEN {p \in DOMAIN disk :
             /\ Below(root, p)
             /\ disk[p].isDir
             /\ walkCallback(disk, root, loadIgnoreMatcher(disk, root), p).act = "SkipDir"}
    ELSE {}

noneBelowPruned(disk, root, files) ==
    \A D \in prunedDirs(disk, root) :
        \A k \in 1..Len(files) : ~Below(D, files[k].Path)

\* C2 as stated: no entry of the run's entry set lies below a directory that
\* some walk of the run pruned.
C2_RunHasNoEntryBelowPrunedDir ==
    \A i \in 1..Len(inputLog) :
        noneBelowPruned(diskNow, inputLog[i].input.path, allFilesMaster)

\* C2: for every directory D that a walk prunes, no entry returned by that same
\* walk has a path below D.
C2_WalkHasNoEntryBelowPrunedDir ==
    \A i \in 1..Len(inputLog) :
        noneBelowPruned(diskNow, inputLog[i].input.path, inputLog[i].files)

\* a walk that returned entries and pruned a directory holding files, one of
\* which another input of the run named
C2_Witness ==
    \E i \in 1..Len(inputLog) :
        /\ inputLog[i].files # <<>>
        /\ \E D \in prunedDirs(diskNow, inputLog[i].input.path) :
               \E k \in 1..Len(allFilesMaster) : Below(D, allFilesMaster[k].Path)

-----------------------------------------------------------------------------
(* Properties of the crawler *)

stripFragment(url) == <<url[1], url[2], "">>

\* the requests the crawl for input number n made
fetchesOf(n) == SelectSeq(fetchLog, LAMBDA f : f.input = n)

distinctURLs(urls) ==
    \A i, j \in 1..Len(urls) :
        i < j => stripFragment(urls[i]) # stripFragment(urls[j])

onceEach(fetches, files) ==
    /\ distinctURLs([i \in 1..Len(fetches) |-> fetches[i].url])
    /\ distinctURLs([i \in 1..Len(files) |-> files[i].Path])
    /\ \A i \in 1..Len(files) :
           \E k \in 1..Len(fetches) :
               stripFragment(fetches[k].url) = stripFragment(files[i].Path)

\* C3: within one crawl invocation, URLs compared without their fragment, each
\* URL is requested at most once and yields at most one entry, and every entry
\* is the page of a request made; this holds whether or not the request failed.
C3_EachURLFetchedOnce ==
    \A n \in 1..Len(inputLog) :
        isWebURL(inputLog[n].input) => onceEach(fetchesOf(n), inputLog[n].files)

\* a traversal that came upon the failing page R through two links of Q, and
\* upon its own start page again, and requested R
C3_Witness ==
    /\ traverseLinks
    /\ Len(inputLog) = 1
    /\ web["R"].status = 404
    /\ web["Q"].links = <<Href("http", "P", ""), Href("http", "R", "a"),
                           Href("http", "R", "b")>>
    /\ \E k \in 1..Len(fetchLog) : PageOf(fetchLog[k].url) = "R"
    /\ \E k \in 1..Len(fetchLog) : PageOf(fetchLog[k].url) = "Q" /\ fetchLog[k].depth = 1

\* the pages an http or https link of page p points to
linkTargets(w, p) ==
    {PageOf(w[p].links[i].url) : i \in {k \in 1..Len(w[p].links) :
        /\ w[p].links[k].kind = "url"
        /\ SchemeOf(w[p].links[k].url) \in {"http", "https"}}}

RECURSIVE pagesWithin(_, _, _)
\* the pages at hyperlink distance at most k from a page of S
pagesWithin(w, S, k) ==
    IF k < 0 THEN {}
    ELSE IF k = 0 THEN S
    ELSE pagesWithin(w, S \cup UNION {linkTargets(w, p) : p \in S}, k - 1)

\* the depth ceiling of a crawl: the configured one when traversing, else 0
ceilingK == IF traverseLinks THEN linkDepth ELSE 0

withinCeiling(start, fetches, files) ==
    /\ \A i \in 1..Len(files) :
           PageOf(files[i].Path) \in pagesWithin(web, {PageOf(start)}, ceilingK)
    /\ \A k \in 1..Len(fetches) :
           fetches[k].depth >= 0 /\ fetches[k].depth <= ceilingK

\* C4: a crawl with depth ceiling K yields no entry for a page whose hyperlink
\* distance from the start URL exceeds K, and requests no page at a recursion
\* depth above K.
C4_NothingBeyondCeiling ==
    \A n \in 1..Len(inputLog) :
        isWebURL(inputLog[n].input) =>
            withinCeiling(inputLog[n].input.url, fetchesOf(n), inputLog[n].files)

\* a traversal with ceiling 1 from P that requested Q at depth 1 and left the
\* served page R, which Q links to, alone
C4_Witness ==
    /\ traverseLinks
    /\ linkDepth = 1
    /\ Len(inputLog) = 1
    /\ web["Q"].links = <<Href("http", "R", "")>>
    /\ web["R"].status = 200
    /\ \E k \in 1..Len(fetchLog) : PageOf(fetchLog[k].url) = "Q" /\ fetchLog[k].depth = 1
    /\ \A k \in 1..Len(fetchLog) : PageOf(fetchLog[k].url) # "R"
    /\ \E i \in 1..Len(inputLog[1].files) : PageOf(inputLog[1].files[i].Path) = "Q"

-----------------------------------------------------------------------------
(* Properties of the enrichment stage and of aggregation *)

\* the token-counting stage ran, or is running
enriching == ~disableTokens /\ pc \notin {"start", "loop"}

\* the stage and the aggregation after it are over
aggregated == pc \in {"output", "defers", "done"}

\* what a worker had to do with entry f, judged from the entry and the disk
enrichedRight(disk, f) ==
    LET preloaded == ~f.Content.nil
        canRead == f.Path \in DOMAIN disk /\ ~disk[f.Path].isDir /\ disk[f.Path].readable
        content == IF preloaded THEN f.Content
                   ELSE IF canRead THEN disk[f.Path].content ELSE NilContent
    IN  IF f.Error = NoErr
        THEN /\ preloaded \/ canRead
             /\ f.TokenCount = IF content.len = 0 THEN 0 ELSE content.toks
        ELSE /\ ~preloaded /\ ~canRead
             /\ f.TokenCount = 0

allEnrichedRight(disk, files) ==
    \A i \in 1..Len(files) : files[i].IsDir \/ enrichedRight(disk, files[i])

\* C5: after enrichment every file entry either carries no failure and its
\* metric is the count of the content used (the pre-loaded content if present,
\* else the bytes read from its path; 0 for empty content), or it carries a
\* failure and its metric is unset.
C5_MetricOrFailure ==
    enriching => /\ allEnrichedRight(diskNow, results)
                 /\ allEnrichedRight(diskNow, processedFiles)

\* the stage delivered a counted file, an empty file with metric 0 and a file
\* that could not be read
C5_Witness ==
    /\ enriching
    /\ aggregated
    /\ \E i \in 1..Len(processedFiles) : processedFiles[i].TokenCount > 0
    /\ \E i \in 1..Len(processedFiles) :
           /\ ~processedFiles[i].IsDir
           /\ processedFiles[i].Size = 0
           /\ processedFiles[i].Error = NoErr
    /\ \E i \in 1..Len(processedFiles) : processedFiles[i].Error # NoErr

RECURSIVE sizeOfFiles(_, _)
\* the sizes of the file entries among the first n of files, summed
sizeOfFiles(files, n) ==
    IF n = 0 THEN 0
    ELSE sizeOfFiles(files, n - 1) + (IF files[n].IsDir THEN 0 ELSE files[n].Size)

fileIndexes(files) == {i \in 1..Len(files) : ~files[i].IsDir}

\* C6: the aggregate's total size is the sum of the sizes of the discovered
\* file entries and its file count is their number, whatever the worker count
\* and the order in which workers delivered.
C6_TotalsMatchDiscovered ==
    aggregated =>
        /\ summary.TotalFiles = Cardinality(fileIndexes(allFilesMaster))
        /\ summary.TotalSize = sizeOfFiles(allFilesMaster, Len(allFilesMaster))

\* several workers delivered the entries, a directory among them, in an order
\* other than the discovered one
C6_Witness ==
    /\ aggregated
    /\ enriching
    /\ numWorkers > 1
    /\ processedFiles # allFilesMaster
    /\ \E i \in 1..Len(allFilesMaster) : allFilesMaster[i].IsDir
    /\ summary.TotalFiles > 1
    /\ summary.TotalSize > 0

\* how many entries of files have identity p
countOf(files, p) == Cardinality({i \in 1..Len(files) : files[i].Path = p})

\* the same identities, each as often
sameEntries(a, b) ==
    /\ Len(a) = Len(b)
    /\ \A i \in 1..Len(a) : countOf(a, a[i].Path) = countOf(b, a[i].Path)

\* the jobs workers hold
heldBy(workers) ==
    LET having == SelectSeq(workers, LAMBDA x : x.pc = "have")
    IN  [i \in 1..Len(having) |-> having[i].file]

\* every entry is in exactly one place: not yet sent, queued, held or delivered
inOnePlace(delivered) ==
    sameEntries(SubSeq(allFilesMaster, sent + 1, Len(allFilesMaster))
                    \o jobs \o heldBy(worker) \o delivered,
                allFilesMaster)

\* C7: every entry submitted to enrichment is taken from the job queue by
\* exactly one worker and yields exactly one result, so the entries after
\* enrichment are the discovered entries, each as often; a worker leaves only
\* when the queue is closed and empty, never because a read failed.
C7_ExactlyOnce ==
    /\ (enriching /\ pc \in {"send", "wait", "collect"}) => inOnePlace(results)
    /\ (enriching /\ pc \notin {"send", "wait", "collect"}) =>
           sameEntries(processedFiles, allFilesMaster)
    /\ \A w \in DOMAIN worker :
           worker[w].pc = "done" => jobsClosed /\ jobs = <<>>
    /\ \A w \in DOMAIN worker : worker[w].pc = "have" => ~worker[w].file.IsDir

\* a single worker failed to read a file and went on to count a later one
C7_Witness ==
    /\ enriching
    /\ aggregated
    /\ numWorkers = 1
    /\ \E i, j \in 1..Len(processedFiles) :
           /\ i < j
           /\ processedFiles[i].Error # NoErr
           /\ processedFiles[j].TokenCount > 0

\* no send is blocked and the channels are closed in order
C8_NobodyBlocks ==
    /\ (pc = "send" /\ sent < Len(allFilesMaster)) =>
           IF allFilesMaster[sent + 1].IsDir
           THEN Len(results) < resultsCap(Len(allFilesMaster))
           ELSE Len(jobs) < jobsCap(Len(allFilesMaster))
    /\ \A w \in DOMAIN worker :
           worker[w].pc = "have" => Len(results) < resultsCap(Len(allFilesMaster))
    /\ resultsClosed =>
           /\ jobsClosed
           /\ wg = 0
           /\ jobs = <<>>
           /\ \A w \in DOMAIN worker : worker[w].pc = "done"

\* C8: for any entry list (empty, or with directory entries) and any worker
\* count, the enrichment stage terminates without deadlock: no producer or
\* worker is ever blocked on a send, results is closed only after the last
\* worker left, and the stage is eventually over.
C8_EnrichmentTerminates == []C8_NobodyBlocks /\ <>(pc = "output")

\* the stage is over, having run the default number of workers on a list with
\* a directory entry and a file entry
C8_Witness ==
    /\ pc = "output"
    /\ resultsClosed
    /\ numThreads <= 0
    /\ numWorkers = numCPU
    /\ numWorkers > 1
    /\ \E i \in 1..Len(allFilesMaster) : allFilesMaster[i].IsDir
    /\ \E i \in 1..Len(allFilesMaster) : ~allFilesMaster[i].IsDir

-----------------------------------------------------------------------------
(* Properties of the run: failed inputs and temporary directories *)

\* access to the source an input names fails: the local path cannot be
\* stat'ed, the start URL cannot be fetched or answers outside 2xx, the
\* repository cannot be cloned or its clone cannot be stat'ed
sourceAccessFails(input) ==
    IF isWebURL(input)
    THEN ~web[PageOf(input.url)].getOK
         \/ web[PageOf(input.url)].status < 200
         \/ web[PageOf(input.url)].status >= 300
    ELSE IF isGitURL(input)
    THEN input.repo \in BrokenRepos \/ ~RepoTree[input.repo][<<>>].statOK
    ELSE input.path \notin DOMAIN LocalFS \/ ~LocalFS[input.path].statOK

failedInputs == {n \in 1..Len(inputLog) : sourceAccessFails(inputLog[n].input)}

\* C9: every input whose source access fails adds no entries and is counted
\* once in the failed-input counter, in traverse and in non-traverse mode; the
\* other inputs are still processed, and the counter equals the number of
\* inputs whose source access failed.
C9_FailedInputsCounted ==
    /\ \A n \in failedInputs : inputLog[n].files = <<>> /\ inputLog[n].err # NoErr
    /\ failedPaths >= Cardinality(failedInputs)
    /\ (pc # "loop" /\ pc # "start") => Len(inputLog) = Len(finalInputPaths)
    /\ (pc = "done") => failedPaths = Cardinality(failedInputs)

tempDirNames(ever) == {t.name : t \in ever}

\* C10: every temporary directory made for a clone is gone when the run ends:
\* a failed clone leaves none behind, a successful clone is registered for
\* cleanup as soon as it exists and stays until the deferred cleanup, and the
\* cleanup is registered before any clone is attempted.
C10_TempDirsRemoved ==
    /\ pc = "done" => tmpOnDisk = {}
    /\ tmpEver # {} => cleanupRegistered
    /\ tmpOnDisk \subseteq tempDirNames(tmpEver)
    /\ \A t \in tmpEver : t.repo \in BrokenRepos => t.name \notin tmpOnDisk
    /\ \A t \in tmpEver :
           t.repo \notin BrokenRepos =>
               /\ \E k \in 1..Len(tempDirsToClean) : tempDirsToClean[k] = t.name
               /\ pc # "done" => t.name \in tmpOnDisk

\* the run is over after a clone that failed and a clone whose walk failed
C10_Witness ==
    /\ pc = "done"
    /\ failedPaths = Len(finalInputPaths)
    /\ \E t \in tmpEver : t.repo \in BrokenRepos
    /\ \E t \in tmpEver : t.repo \notin BrokenRepos
    /\ tmpOnDisk = {}

-----------------------------------------------------------------------------
(* Properties of the accumulated entries, of link following and of input   *)
(* classification                                                           *)

\* C11: no two entries of the run's accumulated entry set have the same
\* identity, whatever the inputs are.
C11_IdentitiesUnique ==
    \A i, j \in 1..Len(allFilesMaster) :
        i < j => allFilesMaster[i].Path # allFilesMaster[j].Path

\* the page was fetched and parsed: the crawler reads its links
pageRead(w, page) ==
    /\ w[page].getOK
    /\ w[page].status >= 200 /\ w[page].status < 300
    /\ w[page].html
    /\ w[page].bodyOK

\* the links of a page read at a depth below the ceiling: those resolving to
\* an http or https URL were recursed into, so their target was requested in
\* this crawl; no other link was followed
linksFollowed(w, fetches, f) ==
    \A k \in 1..Len(w[PageOf(f.url)].links) :
        LET link == w[PageOf(f.url)].links[k] IN
        (link.kind = "url" /\ SchemeOf(link.url) \in {"http", "https"}) =>
            \E g \in 1..Len(fetches) : fetches[g].url = stripFragment(link.url)

onlyWebSchemes(fetches) ==
    \A g \in 1..Len(fetches) : SchemeOf(fetches[g].url) \in {"http", "https"}

followsHttpAndHttps(w, fetches) ==
    /\ onlyWebSchemes(fetches)
    /\ \A g \in 1..Len(fetches) :
           (pageRead(w, PageOf(fetches[g].url)) /\ fetches[g].depth < ceilingK)
               => linksFollowed(w, fetches, fetches[g])

\* C12: a link of a page read below the depth ceiling that resolves to an http
\* or https URL is recursed into at depth+1, an https link like an http one;
\* links of any other scheme are never followed.
C12_HttpAndHttpsLinksFollowed ==
    \A n \in 1..Len(inputLog) :
        (isWebURL(inputLog[n].input) /\ traverseLinks)
            => followsHttpAndHttps(web, fetchesOf(n))

\* C13: an input that is an http(s) URL ending in ".git" is cloned into a
\* temporary directory which is then walked; it is not fetched as a web page.
C13_HttpGitURLIsCloned ==
    \A n \in 1..Len(inputLog) :
        (inputLog[n].input.dotGit /\ inputLog[n].input.prefix \in {"http://", "https://"})
            => /\ inputLog[n].tmp # ""
               /\ fetchesOf(n) = <<>>

-----------------------------------------------------------------------------
(* Scenarios *)

pathsOf(files) == [i \in 1..Len(files) |-> files[i].Path]

\* C14: for a root holding a.go (50 bytes), .secret and b.txt, with hidden
\* entries not shown, exclude glob *.txt and include glob *.go, the entry set
\* is exactly {a.go}, TotalFiles is 1 and TotalSize is 50.
C14_ScenarioFilterAndTotals ==
    ( /\ finalInputPaths = <<LocalInput(<<"q">>)>>
      /\ ~showHidden
      /\ excludePatterns = "*.txt"
      /\ includePatterns = "*.go"
      /\ (maxSizeBytes = 0 \/ maxSizeBytes >= 50)
      /\ aggregated )
    => /\ pathsOf(processedFiles) = << <<"q", "a.go">> >>
       /\ summary.TotalFiles = 1
       /\ summary.TotalSize = 50

\* the scenario ran to its end with token counting on
C14_Witness ==
    /\ finalInputPaths = <<LocalInput(<<"q">>)>>
    /\ excludePatterns = "*.txt"
    /\ includePatterns = "*.go"
    /\ pc = "done"
    /\ resultsClosed
    /\ Len(processedFiles) = 1
    /\ processedFiles[1].TokenCount > 0

allServed(w, pages) == \A p \in pages : pageRead(w, p) /\ w[p].convOK

\* start page P links to Q only, Q links to R, all served, ceiling 1
chainScenario ==
    /\ traverseLinks
    /\ linkDepth = 1
    /\ finalInputPaths = <<WebInput("http", "P", "")>>
    /\ web["P"].links = <<Href("http", "Q", "")>>
    /\ "R" \in linkTargets(web, "Q")
    /\ allServed(web, {"P", "Q", "R"})

\* C15: when start page P links to Q and Q links to R, all 2xx HTML pages, and
\* the depth ceiling is 1, the crawl of P yields exactly the entries P, Q and
\* R is never requested.
C15_ScenarioChainCeilingOne ==
    chainScenario =>
        /\ \A k \in 1..Len(fetchLog) : PageOf(fetchLog[k].url) # "R"
        /\ Len(inputLog) = 1 =>
               pathsOf(inputLog[1].files) = <<URL("http", "P", ""), URL("http", "Q", "")>>

C15_Witness ==
    /\ chainScenario
    /\ Len(inputLog) = 1
    /\ Len(fetchLog) = 2
    /\ Len(allFilesMaster) = 2

\* web w with the links to the pages of bad taken off page
withoutLinksTo(w, page, bad) ==
    [w EXCEPT ![page].links =
        SelectSeq(@, LAMBDA l : ~(l.kind = "url" /\ PageOf(l.url) \in bad))]

\* the crawl from url returned no error, the start page's own entry without a
\* failure on it, and the entries reference holds
isolated(url, r, reference) ==
    /\ r.err = NoErr
    /\ r.files # <<>>
    /\ r.files[1].Path = stripFragment(url)
    /\ r.files[1].Error = NoErr
    /\ r.files = reference

\* the crawl of record r, compared with the crawl of the same web with the
\* start page's links to the pages of bad removed
isolatedFrom(r, bad) ==
    isolated(r.input.url, r,
             processWebURLRecursive(withoutLinksTo(web, PageOf(r.input.url),
                                                   bad \ {PageOf(r.input.url)}),
                                    r.input.url, 0, linkDepth, EmptyCrawl).files)

traversalFrom(r) ==
    /\ isWebURL(r.input)
    /\ traverseLinks
    /\ linkDepth >= 0
    /\ allServed(web, {PageOf(r.input.url)})

\* C16 as stated: link targets that are skipped or fail, a failed conversion
\* included, leave the crawl of P as if their links were not on the page.
C16_FailingLinksLeaveNoTrace ==
    \A n \in 1..Len(inputLog) :
        traversalFrom(inputLog[n]) =>
            isolatedFrom(inputLog[n], {p \in Pages : ~allServed(web, {p})})

\* C16: when a link target of P cannot be fetched or read (fetch error,
\* non-2xx status, non-HTML content type, body read error), the crawl of P
\* returns no error, P's own entry is produced without a failure, and the
\* other links of P are processed in document order with the same entries as
\* if the failing link were not on the page.
C16_UnreadableLinksLeaveNoTrace ==
    \A n \in 1..Len(inputLog) :
        traversalFrom(inputLog[n]) =>
            isolatedFrom(inputLog[n], {p \in Pages : ~pageRead(web, p)})

\* P links to Q, which answers 404, and then to R, which got its entry
C16_Witness ==
    /\ traverseLinks
    /\ linkDepth >= 1
    /\ Len(inputLog) = 1
    /\ PageOf(inputLog[1].input.url) = "P"
    /\ web["P"].links = <<Href("http", "Q", ""), Href("http", "R", "")>>
    /\ web["Q"].status = 404
    /\ \E k \in 1..Len(fetchLog) : PageOf(fetchLog[k].url) = "Q"
    /\ \E i \in 1..Len(inputLog[1].files) : PageOf(inputLog[1].files[i].Path) = "R"
    /\ PageOf(inputLog[1].files[1].Path) = "P"

-----------------------------------------------------------------------------
(* Properties of the totals, of invalid globs and of the default excludes *)

\* the metric entry f ends up with: the count of its content, 0 for a
\* directory, for empty content and for a file that cannot be read
metricOf(disk, f) ==
    IF f.IsDir THEN 0
    ELSE IF ~f.Content.nil THEN (IF f.Content.len = 0 THEN 0 ELSE f.Content.toks)
    ELSE IF f.Path \in DOMAIN disk /\ ~disk[f.Path].isDir /\ disk[f.Path].readable
    THEN (IF disk[f.Path].content.len = 0 THEN 0 ELSE disk[f.Path].content.toks)
    ELSE 0

RECURSIVE metricSum(_, _, _)
metricSum(disk, files, n) ==
    IF n = 0 THEN 0 ELSE metricSum(disk, files, n - 1) + metricOf(disk, files[n])

failedIndexes(files) == {i \in 1..Len(files) : files[i].Error # NoErr}

\* C18: the metric total is the sum of the metric over the file entries:
\* directory entries add nothing to any total, a file entry carrying a failure
\* is counted in TotalFiles and TotalSize and adds zero to the metric total,
\* and the total does not depend on how the workers were scheduled.
C18_MetricTotalOverFiles ==
    aggregated =>
        /\ summary.TotalTokens =
               IF disableTokens THEN 0
               ELSE metricSum(diskNow, allFilesMaster, Len(allFilesMaster))
        /\ summary.TotalFiles >= Cardinality(failedIndexes(processedFiles))
        /\ summary.TotalFiles = Cardinality(fileIndexes(processedFiles))
        /\ summary.TotalSize = sizeOfFiles(processedFiles, Len(processedFiles))
        /\ \A i \in failedIndexes(processedFiles) :
               ~processedFiles[i].IsDir /\ processedFiles[i].TokenCount = 0

\* several workers delivered a counted file, a file that could not be read and
\* a directory
C18_Witness ==
    /\ aggregated
    /\ enriching
    /\ numWorkers > 1
    /\ failedIndexes(processedFiles) # {}
    /\ \E i \in 1..Len(processedFiles) : processedFiles[i].IsDir
    /\ summary.TotalTokens > 0
    /\ summary.TotalFiles = 2

hasBadPattern(flag) ==
    \E k \in 1..Len(parsePatterns(Chars[flag])) : BadPattern(parsePatterns(Chars[flag])[k])

\* C19: when an include or exclude glob is syntactically invalid, processing
\* of an input that uses it fails: the input yields no entries and is counted
\* as failed.
C19_InvalidGlobFailsInput ==
    (hasBadPattern(excludePatterns) \/ hasBadPattern(includePatterns)) =>
        /\ \A n \in 1..Len(inputLog) :
               (inputLog[n].input.path \in DOMAIN diskNow)
                   => inputLog[n].err # NoErr /\ inputLog[n].files = <<>>
        /\ allFilesMaster = <<>>

\* the directories on the way from root down to the entry at path
dirsBetween(root, path) ==
    {path[k] : k \in (Len(root) + 1)..(Len(path) - 1)}

\* C20: with no exclude flag and no ignore list, directories named target or
\* node_modules below the walked root are pruned by the default exclude list,
\* so no file below them is in the entry set.
C20_DefaultExcludesPruneBuildDirs ==
    excludePatterns = DefaultExcludes =>
        \A n \in 1..Len(inputLog) :
            ~loadIgnoreMatcher(diskNow, inputLog[n].input.path).loaded =>
                \A i \in 1..Len(inputLog[n].files) :
                    dirsBetween(inputLog[n].input.path, inputLog[n].files[i].Path)
                        \cap {"target", "node_modules"} = {}

-----------------------------------------------------------------------------
(* Properties of the output stage *)

\* the entries as enrichment leaves them, taken in discovery order: a list that
\* depends on neither the number of workers nor the order they finish in
enrichedInOrder(disk, files, noTokens) ==
    IF noTokens THEN files
    ELSE [i \in 1..Len(files) |-> tokenWorkerResult(disk, files[i])]

\* the lines that name an entry by its path
pathLines == {"list", "file", "pdftree", "pdffile"}

\* consecutive lines of one section never step back in path order
pathsAscend(lines) ==
    \A i \in 1..(Len(lines) - 1) :
        (lines[i].kind \in pathLines /\ lines[i + 1].kind = lines[i].kind)
            => ~pathLess(lines[i + 1].path, lines[i].path)

\* entries of one path are the same entry, so an unstable sort has no freedom
equalPathsEqualEntries(files) ==
    \A i, j \in 1..Len(files) : files[i].Path = files[j].Path => files[i] = files[j]

renderedFrom(disk, files, inputs, format, pdf, noTokens, lines) ==
    /\ lines = renderOutput(disk, enrichedInOrder(disk, files, noTokens), inputs,
                            format, pdf, noTokens)
    /\ pathsAscend(lines)

\* C17: on every output path (tree view, flat list, files output, PDF) what
\* is rendered is what rendering the enriched entries in discovery order yields,
\* and its path-named lines ascend by path: the rendered order depends on
\* neither the worker count nor the order the workers finished in.
C17_RenderedOrderIndependentOfWorkers ==
    pc = "defers" =>
        /\ renderedFrom(diskNow, allFilesMaster, finalInputPaths, outputFormat,
                        pdfOutput, disableTokens, rendered)
        /\ equalPathsEqualEntries(received)

\* several workers delivered the entries in another order than path order, and
\* the output stage rendered them
C17_Witness ==
    /\ pc = "defers"
    /\ numWorkers > 1
    /\ Len(received) >= 3
    /\ received # sortByPath(received)
    /\ received # allFilesMaster
    /\ Len(rendered) >= 3

-----------------------------------------------------------------------------
(* Properties of directory entries *)

\* a directory entry with no content, no metric and no failure
bareDirectory(f) == f.Content.nil /\ f.TokenCount = 0 /\ f.Error = NoErr

directoriesBare(files) ==
    \A i \in 1..Len(files) : files[i].IsDir => bareDirectory(files[i])

noDirectory(files) == \A i \in 1..Len(files) : ~files[i].IsDir

\* every directory entry of files is an entry of master, field for field
directoriesFrom(files, master) ==
    \A i \in 1..Len(files) :
        files[i].IsDir => \E k \in 1..Len(master) : files[i] = master[k]

directoriesUntouched(master, queued, held, delivered, collected) ==
    /\ directoriesBare(master)
    /\ noDirectory(queued) /\ noDirectory(held)
    /\ directoriesBare(delivered) /\ directoriesFrom(delivered, master)
    /\ directoriesBare(collected) /\ directoriesFrom(collected, master)

\* C21: in every state of the pipeline a directory entry has no content and no
\* metric; a directory entry is never queued for or held by a worker, and the
\* directory entries delivered and collected are the discovered ones unchanged.
C21_DirectoriesBypassEnrichment ==
    directoriesUntouched(allFilesMaster, jobs, heldBy(worker), results, processedFiles)

\* the stage ran with workers and delivered a directory next to a counted file
C21_Witness ==
    /\ pc = "output"
    /\ ~disableTokens
    /\ numWorkers >= 1
    /\ \E i \in 1..Len(processedFiles) : processedFiles[i].IsDir
    /\ \E i \in 1..Len(processedFiles) : processedFiles[i].TokenCount > 0

-----------------------------------------------------------------------------
(* Properties of the filter rule stack *)

\* the six rules, each stated on the candidate alone
nameMatchesSome(base, patterns) ==
    \E k \in 1..Len(patterns) : filepathMatch(patterns[k], base).matched

hiddenRule(base) == ~showHidden /\ base # <<>> /\ base[1] = "."
ignoreRule(matcher, relPath, isDirectory) ==
    matcher.loaded /\ ignoreMatch(matcher, relPath, isDirectory)
depthRule(relPath, isDirectory) ==
    isDirectory /\ maxDepth > 0 /\ Len(relPath) - 1 >= maxDepth
excludeRule(base) == nameMatchesSome(base, parsePatterns(Chars[excludePatterns]))
includeKeeps(path, base) ==
    LET globs == parsePatterns(Chars[includePatterns]) IN
    IF Len(globs) > 0 THEN nameMatchesSome(base, globs)
    ELSE IF langData # "nil" THEN GetLanguageForFile(path)
    ELSE TRUE
sizeRule(size) == maxSizeBytes > 0 /\ size > maxSizeBytes

\* the decision of the first decisive rule, in the order hidden, ignore list,
\* depth ceiling, exclude glob, include, size ceiling
decide(disk, root, matcher, path) ==
    LET base == Chars[Last(path)]
        isDirectory == disk[path].isDir
        relPath == SubSeq(path, Len(root) + 1, Len(path))
        out == IF isDirectory THEN "PruneSubtree" ELSE "Reject"
    IN  IF hiddenRule(base) THEN [decision |-> out, rule |-> "hidden"]
        ELSE IF ignoreRule(matcher, relPath, isDirectory)
        THEN [decision |-> out, rule |-> "ignore"]
        ELSE IF depthRule(relPath, isDirectory)
        THEN [decision |-> out, rule |-> "depth"]
        ELSE IF excludeRule(base) THEN [decision |-> out, rule |-> "exclude"]
        ELSE IF isDirectory THEN [decision |-> "Traverse", rule |-> "none"]
        ELSE IF ~includeKeeps(path, base) THEN [decision |-> "Reject", rule |-> "include"]
        ELSE IF sizeRule(disk[path].size) THEN [decision |-> "Reject", rule |-> "size"]
        ELSE [decision |-> "Keep", rule |-> "none"]

\* what the callback's return value means as a decision
decisionOf(act) ==
    CASE act = "SkipDir" -> "PruneSubtree"
      [] act = "skip" -> "Reject"
      [] act = "keep" -> "Keep"
      [] OTHER -> "Traverse"

\* the input names a directory the run can walk
walkable(disk, root) == root \in DOMAIN disk /\ disk[root].statOK /\ disk[root].isDir

\* the candidates of a walk: everything below the root whose metadata can be read
candidates(disk, root) == {p \in DOMAIN disk : Below(root, p) /\ disk[p].infoOK}

decidesInOrder(disk, root, matcher) ==
    \A p \in candidates(disk, root) :
        LET cb == walkCallback(disk, root, matcher, p)
            ref == decide(disk, root, matcher, p)
        IN  /\ decisionOf(cb.act) = ref.decision
            /\ cb.rule = ref.rule
            /\ cb.info <=> ref.rule \in {"size", "none"} /\ ~disk[p].isDir
            /\ (hiddenRule(Chars[Last(p)]) \/ cb.rule = "ignore")
                   => cb.act \in {"SkipDir", "skip"}

\* C22: for every candidate of a walk the callback's decision is the decision
\* of the first decisive rule in the order hidden, ignore list, depth ceiling,
\* exclude glob, include, size ceiling; file metadata is read only for files
\* that passed the include rule; a hidden or ignored entry is rejected or
\* pruned whatever the include globs are.
C22_DecisionIsFirstDecisiveRule ==
    \A i \in 1..Len(inputLog) :
        walkable(diskNow, inputLog[i].input.path) =>
            decidesInOrder(diskNow, inputLog[i].input.path,
                           loadIgnoreMatcher(diskNow, inputLog[i].input.path))

\* depth of a path below the root: the separators of its relative path
depthBelow(root, path) == Len(path) - Len(root) - 1

\* the directories strictly between the root and path
dirsAbove(root, path) ==
    {SubSeq(path, 1, n) : n \in (Len(root) + 1)..(Len(path) - 1)}

\* the walk gets to path as far as the rules other than depth and the disk go:
\* every directory above it can be listed and is pruned by no hidden, ignore
\* or exclude rule
reachedButForDepth(disk, root, matcher, path) ==
    /\ disk[root].listable
    /\ \A D \in dirsAbove(root, path) :
           /\ disk[D].listable
           /\ walkCallback(disk, root, matcher, D).rule \notin
                  {"hidden", "ignore", "exclude"}

returned(files, path) == \E k \in 1..Len(files) : files[k].Path = path

depthCeilingHolds(disk, root, matcher, files) ==
    LET below == {p \in DOMAIN disk : Below(root, p)} IN
    IF maxDepth > 0
    THEN /\ \A p \in below :
                (disk[p].isDir /\ depthBelow(root, p) >= maxDepth)
                    => walkCallback(disk, root, matcher, p).act = "SkipDir"
         /\ \A p \in below :
                (/\ ~disk[p].isDir
                 /\ depthBelow(root, p) = maxDepth
                 /\ reachedButForDepth(disk, root, matcher, p)
                 /\ walkCallback(disk, root, matcher, p).act = "keep")
                    => returned(files, p)
         /\ \A k \in 1..Len(files) : depthBelow(root, files[k].Path) <= maxDepth
    ELSE \A p \in below :
             /\ walkCallback(disk, root, matcher, p).rule # "depth"
             /\ (/\ ~disk[p].isDir
                 /\ reachedButForDepth(disk, root, matcher, p)
                 /\ walkCallback(disk, root, matcher, p).act = "keep")
                    => returned(files, p)

\* C23: with a positive depth ceiling K every directory at depth K or more is
\* pruned, a file at depth exactly K that the other rules keep and the walk can
\* get to is returned, and no returned file is deeper than K; with ceiling 0
\* the depth rule decides nothing and depth keeps no file out of the result.
C23_DepthCeiling ==
    \A i \in 1..Len(inputLog) :
        walkable(diskNow, inputLog[i].input.path) =>
            depthCeilingHolds(diskNow, inputLog[i].input.path,
                              loadIgnoreMatcher(diskNow, inputLog[i].input.path),
                              inputLog[i].files)

\* a walk of r under ceiling 2 returned r/d/s/f.go, at depth 2, and pruned the
\* directory r/d/s/u, which holds g.go
C23_Witness ==
    /\ maxDepth = 2
    /\ Len(inputLog) >= 1
    /\ inputLog[1].input.path = <<"r">>
    /\ returned(inputLog[1].files, <<"r", "d", "s", "f.go">>)
    /\ returned(inputLog[1].files, <<"r", "a.go">>)
    /\ ~returned(inputLog[1].files, <<"r", "d", "s", "u", "g.go">>)
    /\ walkCallback(diskNow, <<"r">>, loadIgnoreMatcher(diskNow, <<"r">>),
                    <<"r", "d", "s", "u">>).rule = "depth"

\* the file candidates of a walk that no rule before the include rule decides
reachIncludeRule(disk, root, matcher) ==
    {p \in DOMAIN disk :
        /\ Below(root, p)
        /\ ~disk[p].isDir
        /\ walkCallback(disk, root, matcher, p).rule \notin
               {"hidden", "ignore", "depth", "exclude"}}

includeModesHold(disk, root, matcher) ==
    \A p \in reachIncludeRule(disk, root, matcher) :
        walkCallback(disk, root, matcher, p).rule # "include"
            <=> includeKeeps(p, Chars[Last(p)])

\* C24: a file that reaches the include rule passes it exactly when (a) include
\* globs are configured and its base name matches one of them, or (b) none are
\* configured, a language table is loaded and its extension or file name is a
\* language signature, or (c) neither globs nor table are there.
C24_IncludeRuleModes ==
    \A i \in 1..Len(inputLog) :
        walkable(diskNow, inputLog[i].input.path) =>
            includeModesHold(diskNow, inputLog[i].input.path,
                             loadIgnoreMatcher(diskNow, inputLog[i].input.path))

\* the walk gets to path: every directory above it is descended into and listed
reached(disk, root, matcher, path) ==
    /\ disk[root].listable
    /\ \A D \in dirsAbove(root, path) :
           /\ disk[D].listable
           /\ walkCallback(disk, root, matcher, D).act = "descend"

directoriesOnlyPruned(disk, root, matcher, files) ==
    LET below == {p \in DOMAIN disk : Below(root, p)} IN
    /\ \A D \in below :
           disk[D].isDir =>
               LET cb == walkCallback(disk, root, matcher, D) IN
               /\ cb.rule \in {"hidden", "ignore", "depth", "exclude", "none"}
               /\ ~cb.info
               /\ cb.act = IF cb.rule = "none" THEN "descend" ELSE "SkipDir"
    /\ \A f \in below :
           (/\ ~disk[f].isDir
            /\ walkCallback(disk, root, matcher, f).act = "keep"
            /\ \A D \in dirsAbove(root, f) :
                   /\ disk[D].listable
                   /\ walkCallback(disk, root, matcher, D).rule = "none")
               => returned(files, f)

\* C25: a directory is decided by the hidden, ignore, depth or exclude rule or
\* by none; the include rule and the size rule never decide it and its metadata
\* is not read; a directory no rule prunes is descended into, so a file the
\* rules keep is returned whatever the names and sizes of the directories above.
C25_DirectoriesNeverFiltered ==
    \A i \in 1..Len(inputLog) :
        walkable(diskNow, inputLog[i].input.path) =>
            directoriesOnlyPruned(diskNow, inputLog[i].input.path,
                                  loadIgnoreMatcher(diskNow, inputLog[i].input.path),
                                  inputLog[i].files)

\* include glob *.go and size ceiling 12: r/d/e.go, of 11 bytes, is returned
\* although directory d matches no include glob and is larger than the ceiling
C25_Witness ==
    /\ includePatterns = "*.go"
    /\ maxSizeBytes = 12
    /\ Len(inputLog) >= 1
    /\ inputLog[1].input.path = <<"r">>
    /\ diskNow[<<"r", "d">>].size > maxSizeBytes
    /\ ~filepathMatch(Chars["*.go"], Chars["d"]).matched
    /\ returned(inputLog[1].files, <<"r", "d", "e.go">>)

-----------------------------------------------------------------------------
(* Properties of the local walk *)

\* the files below the root the callback keeps, with no pruned directory above
keptAndUnpruned(disk, root, matcher) ==
    {f \in DOMAIN disk :
        /\ Below(root, f)
        /\ ~disk[f].isDir
        /\ walkCallback(disk, root, matcher, f).act = "keep"
        /\ \A D \in dirsAbove(root, f) :
               walkCallback(disk, root, matcher, D).act # "SkipDir"}

\* those of them the walk can get to: every directory above can be listed
keptAndReached(disk, root, matcher) ==
    {f \in keptAndUnpruned(disk, root, matcher) :
        /\ disk[root].listable
        /\ \A D \in dirsAbove(root, f) : disk[D].listable}

\* files lists the paths of S, each once
listsExactly(files, S) ==
    /\ {files[k].Path : k \in 1..Len(files)} = S
    /\ \A j, k \in 1..Len(files) : files[j].Path = files[k].Path => j = k
    /\ \A k \in 1..Len(files) : ~files[k].IsDir

\* C26 as stated: a walk returns exactly the files below the root that the
\* filter keeps and that have no pruned directory between the root and them.
C26_WalkReturnsKeptUnpruned ==
    \A i \in 1..Len(inputLog) :
        walkable(diskNow, inputLog[i].input.path) =>
            /\ inputLog[i].err = NoErr
            /\ listsExactly(inputLog[i].files,
                            keptAndUnpruned(diskNow, inputLog[i].input.path,
                                loadIgnoreMatcher(diskNow, inputLog[i].input.path)))

\* C26: a walk returns exactly the files below the root that the filter keeps
\* and for which every directory between the root and them is neither pruned
\* nor unreadable; the root itself is not put to the filter.
C26_WalkReturnsKeptReached ==
    \A i \in 1..Len(inputLog) :
        walkable(diskNow, inputLog[i].input.path) =>
            /\ inputLog[i].err = NoErr
            /\ listsExactly(inputLog[i].files,
                            keptAndReached(diskNow, inputLog[i].input.path,
                                loadIgnoreMatcher(diskNow, inputLog[i].input.path)))

\* a walk of r under size ceiling 50 rejected c.go and returned files that come
\* after it, in the same directory and below: d/e.go and Makefile's sibling a.go
C26_Witness ==
    /\ maxSizeBytes = 50
    /\ Len(inputLog) >= 1
    /\ inputLog[1].input.path = <<"r">>
    /\ walkCallback(diskNow, <<"r">>, loadIgnoreMatcher(diskNow, <<"r">>),
                    <<"r", "c.go">>).rule = "size"
    /\ ~returned(inputLog[1].files, <<"r", "c.go">>)
    /\ returned(inputLog[1].files, <<"r", "a.go">>)
    /\ returned(inputLog[1].files, <<"r", "d", "e.go">>)
    /\ returned(inputLog[1].files, <<"r", "z.go">>)

\* the entries below the root the walk gets to and cannot read: a directory
\* whose listing fails, a file whose metadata read fails after it passed the
\* rules before the size rule
unreadableEntries(disk, root, matcher) ==
    {p \in DOMAIN disk :
        /\ Below(root, p)
        /\ reached(disk, root, matcher, p)
        /\ \/ disk[p].isDir /\ ~disk[p].listable
                 /\ walkCallback(disk, root, matcher, p).act = "descend"
           \/ ~disk[p].isDir /\ walkCallback(disk, root, matcher, p).rule = "info"}

unreadableSkipped(disk, root, matcher, files) ==
    /\ \A p \in unreadableEntries(disk, root, matcher) :
           \A k \in 1..Len(files) : files[k].Path # p /\ ~Below(p, files[k].Path)
    /\ \A f \in keptAndReached(disk, root, matcher) : returned(files, f)

\* C27: a walk returns without error whatever cannot be read below its root;
\* an entry whose listing or metadata cannot be read contributes nothing, and
\* every other file the filters keep and the walk gets to is returned.
C27_UnreadableEntriesSkipped ==
    \A i \in 1..Len(inputLog) :
        walkable(diskNow, inputLog[i].input.path) =>
            /\ inputLog[i].err = NoErr
            /\ unreadableSkipped(diskNow, inputLog[i].input.path,
                                 loadIgnoreMatcher(diskNow, inputLog[i].input.path),
                                 inputLog[i].files)

\* a walk of r met the unreadable directory lock and the file m.go, whose
\* metadata cannot be read, and returned files that come after both
C27_Witness ==
    /\ Len(inputLog) >= 1
    /\ inputLog[1].input.path = <<"r">>
    /\ inputLog[1].err = NoErr
    /\ {<<"r", "lock">>, <<"r", "m.go">>} \subseteq
           unreadableEntries(diskNow, <<"r">>, loadIgnoreMatcher(diskNow, <<"r">>))
    /\ ~returned(inputLog[1].files, <<"r", "m.go">>)
    /\ ~returned(inputLog[1].files, <<"r", "lock", "k.go">>)
    /\ returned(inputLog[1].files, <<"r", "u.go">>)
    /\ returned(inputLog[1].files, <<"r", "a.go">>)

-----------------------------------------------------------------------------
(* Properties of the crawl order *)

\* the entries are in the order in which their pages were requested
inRequestOrder(fetches, files) ==
    [k \in 1..Len(files) |-> files[k].Path]
        = SelectSeq([i \in 1..Len(fetches) |-> fetches[i].url],
                    LAMBDA u : \E k \in 1..Len(files) : files[k].Path = u)

\* the request whose page led to request i: the latest earlier request made one
\* level higher; 0 when there is none
parentFetch(fetches, i) ==
    LET above == {j \in 1..(i - 1) : fetches[j].depth = fetches[i].depth - 1} IN
    IF above = {} THEN 0 ELSE CHOOSE j \in above : \A k \in above : k <= j

\* the position of the first link of the page that the crawler follows to url;
\* 0 when the page has none
firstLinkTo(w, page, url) ==
    LET to == {k \in 1..Len(w[page].links) :
                  /\ ~hrefSkipped(w[page].links[k])
                  /\ w[page].links[k].kind # "unresolvable"
                  /\ schemeFollowed(SchemeOf(w[page].links[k].url))
                  /\ cleanURLOf(w[page].links[k].url) = url}
    IN  IF to = {} THEN 0 ELSE CHOOSE k \in to : \A m \in to : k <= m

\* the requests form a depth-first pre-order walk of the link structure: the
\* start page first; every other request follows the request of a page that
\* links to it, inside that page's subtree; the pages requested from one page
\* come in the document order of its links
depthFirstPreOrder(w, fetches) ==
    /\ \A i \in 1..Len(fetches) :
           IF i = 1 THEN fetches[i].depth = 0
           ELSE LET j == parentFetch(fetches, i) IN
                /\ j > 0
                /\ pageRead(w, PageOf(fetches[j].url))
                /\ firstLinkTo(w, PageOf(fetches[j].url), fetches[i].url) > 0
                /\ \A k \in (j + 1)..(i - 1) : fetches[k].depth >= fetches[i].depth
    /\ \A i, k \in 2..Len(fetches) :
           (i < k /\ parentFetch(fetches, i) = parentFetch(fetches, k)
                  /\ fetches[i].depth = fetches[k].depth)
               => LET page == PageOf(fetches[parentFetch(fetches, i)].url) IN
                  firstLinkTo(w, page, fetches[i].url)
                      < firstLinkTo(w, page, fetches[k].url)

\* C28: the entries of a crawl are in depth-first pre-order: a page's entry
\* comes before the entries of the pages reached through its links, and the
\* subtrees of a page's links come in the document order of the links.
C28_CrawlIsPreOrder ==
    \A n \in 1..Len(inputLog) :
        isWebURL(inputLog[n].input) =>
            /\ inRequestOrder(fetchesOf(n), inputLog[n].files)
            /\ depthFirstPreOrder(web, fetchesOf(n))

\* P links to Q and then to R, Q links to R: the entries are P, Q, R, with R
\* requested two levels down, through Q, before P's own link to R is taken up
C28_Witness ==
    /\ traverseLinks
    /\ Len(inputLog) = 1
    /\ web["P"].links = <<Href("http", "Q", ""), Href("http", "R", "")>>
    /\ [k \in 1..Len(inputLog[1].files) |-> PageOf(inputLog[1].files[k].Path)]
           = <<"P", "Q", "R">>
    /\ [k \in 1..Len(fetchLog) |-> fetchLog[k].depth] = <<0, 1, 2>>

-----------------------------------------------------------------------------
(* Properties of the traversal state of one run *)

\* a crawl starts from nothing: its start URL is requested first whatever the
\* earlier inputs requested, and every URL that a followed link of a page read
\* above the ceiling points at is requested within the same crawl; the crawl
\* requests no URL twice
crawlsFromNothing(w, url, fetches) ==
    /\ (traverseLinks => linkDepth >= 0)
           => fetches # <<>> /\ fetches[1].url = cleanURLOf(url)
    /\ traverseLinks =>
           \A i \in 1..Len(fetches) :
               (fetches[i].depth < linkDepth /\ pageRead(w, PageOf(fetches[i].url)))
                   => \A k \in 1..Len(w[PageOf(fetches[i].url)].links) :
                          LET target == cleanURLOf(w[PageOf(fetches[i].url)].links[k].url) IN
                          firstLinkTo(w, PageOf(fetches[i].url), target) = k
                              => \E m \in 1..Len(fetches) : fetches[m].url = target
    /\ \A i, k \in 1..Len(fetches) : fetches[i].url = fetches[k].url => i = k

\* the ignore list a walk of the root works with: the root's own .gitignore
ownIgnoreList(disk, root) ==
    IF ~noIgnore /\ (root \o <<".gitignore">>) \in DOMAIN disk
                 /\ disk[root \o <<".gitignore">>].statOK
    THEN [loaded |-> TRUE, names |-> disk[root \o <<".gitignore">>].ignore]
    ELSE [loaded |-> FALSE, names |-> {}]

\* the ignore lists of the other roots of the run reject nothing of this walk
walksWithOwnIgnoreList(disk, root, files) ==
    listsExactly(files, keptAndReached(disk, root, ownIgnoreList(disk, root)))

\* C29: the inputs of one run share no traversal state: every crawl starts with
\* an empty visited set, so a URL an earlier input requested is requested again
\* when a later input reaches it, and every walk filters with the ignore list of
\* its own root alone.
C29_NoTraversalStateShared ==
    \A n \in 1..Len(inputLog) :
        /\ isWebURL(inputLog[n].input) =>
               crawlsFromNothing(web, inputLog[n].input.url, fetchesOf(n))
        /\ (~isWebURL(inputLog[n].input) /\ walkable(diskNow, inputLog[n].input.path)) =>
               walksWithOwnIgnoreList(diskNow, inputLog[n].input.path, inputLog[n].files)
        /\ \A m \in 1..Len(inputLog) :
               inputLog[m].input = inputLog[n].input
                   => inputLog[m].files = inputLog[n].files

\* the crawl of P requested Q and the crawl of Q#f requested it again; the walk
\* of r left out r/ig, which r's ignore list names, and the walk of r/ig
\* returned r/ig/y.go
C29_Witness ==
    /\ traverseLinks
    /\ Len(inputLog) = 4
    /\ \E i \in 1..Len(fetchesOf(1)) : PageOf(fetchesOf(1)[i].url) = "Q"
    /\ fetchesOf(2) # <<>> /\ PageOf(fetchesOf(2)[1].url) = "Q"
    /\ inputLog[3].input.path = <<"r">>
    /\ "ig" \in loadIgnoreMatcher(diskNow, <<"r">>).names
    /\ ~returned(inputLog[3].files, <<"r", "ig", "y.go">>)
    /\ inputLog[4].input.path = <<"r", "ig">>
    /\ returned(inputLog[4].files, <<"r", "ig", "y.go">>)

-----------------------------------------------------------------------------
(* Properties of the tree view *)

RECURSIVE attachable(_, _, _)
\* the directory part of the path is the root, or a directory entry of the list
\* that sorts before the path and is itself attachable
attachable(files, root, path) ==
    /\ path # <<>>
    /\ \/ parentOf(path) = root
       \/ \E k \in 1..Len(files) :
              /\ files[k].Path = parentOf(path)
              /\ files[k].IsDir
              /\ pathLess(files[k].Path, path)
              /\ attachable(files, root, files[k].Path)

\* the paths of the tree lines below the root line
treePaths(lines) ==
    {lines[i].path : i \in {k \in 1..Len(lines) : lines[k].kind = "tree"}}

\* the tree shows an entry iff it is attachable, each shown entry once
treeShowsAttachable(files, root, lines) ==
    /\ lines # <<>> /\ lines[1].kind = "root" /\ lines[1].path = root
    /\ \A k \in 1..Len(files) :
           files[k].Path \in treePaths(lines) <=> attachable(files, root, files[k].Path)
    /\ \A p \in treePaths(lines) : \E k \in 1..Len(files) : files[k].Path = p
    /\ \A i, k \in 1..Len(lines) :
           (lines[i].kind = "tree" /\ lines[k].kind = "tree"
                /\ lines[i].path = lines[k].path) => i = k

\* C30: buildTree attaches an entry iff the directory part of its path is the
\* root or a directory entry registered before it in sorted order; an entry
\* without such a parent is left out of the tree, the tree is still printed, and
\* every other entry that has its parent is attached.
C30_TreeAttachesEntriesWithParent ==
    (pc = "defers" /\ outputFormat \in {"tree", "both"})
        => treeShowsAttachable(received, finalInputPaths[1].path, rendered)

\* r/.h/x.go has no parent among the entries and is left out; r/d, which sorts
\* after it, is attached, and r/d/e.go is attached below it
C30_Witness ==
    /\ pc = "defers"
    /\ outputFormat = "tree"
    /\ Len(received) = 3
    /\ returned(received, <<"r", ".h", "x.go">>)
    /\ returned(received, <<"r", "d">>)
    /\ returned(received, <<"r", "d", "e.go">>)
    /\ treePaths(rendered) = {<<"r", "d">>, <<"r", "d", "e.go">>}

-----------------------------------------------------------------------------
(* Properties of the run's stages *)

\* past the set-up a tokenizer exists iff token counting is still enabled
tokenizerCreated == pc # "start" /\ ~disableTokens /\ tokenizerOK

\* every worker has returned, the results are closed and have been drained
enrichmentOver ==
    /\ \A w \in DOMAIN worker : worker[w].pc = "done"
    /\ wg = 0
    /\ jobs = <<>> /\ jobsClosed
    /\ results = <<>> /\ resultsClosed
    /\ Len(processedFiles) = Len(allFilesMaster)

\* no worker was started and nothing was queued; the entries are handed on as
\* they were collected
enrichmentSkipped ==
    /\ numWorkers = 0 /\ worker = <<>> /\ wg = 0
    /\ sent = 0 /\ jobs = <<>> /\ results = <<>>
    /\ ~jobsClosed /\ ~resultsClosed
    /\ pc \in {"aggregate", "output"} => processedFiles = allFilesMaster
    /\ pc \in {"defers", "done"} => received = allFilesMaster

\* C31: Close of a tokenizer that was created is called once per run, after
\* every worker has finished and the results have been collected; when none was
\* created Close is never called and enrichment is skipped.
C31_CloseOnceAfterEnrichment ==
    /\ closeCalls <= 1
    /\ closeCalls = 1 => (pc = "done" /\ tokenizerCreated /\ enrichmentOver)
    /\ (pc = "done" /\ tokenizerCreated) => closeCalls = 1
    /\ (pc # "start" /\ ~tokenizerCreated) => (closeCalls = 0 /\ enrichmentSkipped)

\* a run with a tokenizer whose worker counted the tokens of an entry has
\* returned, and Close was called
C31_Witness ==
    /\ pc = "done"
    /\ tokenizerCreated
    /\ closeCalls = 1
    /\ numWorkers >= 1
    /\ \E k \in 1..Len(processedFiles) : processedFiles[k].TokenCount > 0

\* the enrichment stage has begun: workers exist or an entry has been queued
enrichmentBegun ==
    \/ numWorkers > 0 \/ worker # <<>>
    \/ sent > 0 \/ jobs # <<>> \/ results # <<>>
    \/ pc \in {"send", "wait", "collect"}

\* every input of the run has been processed
discoveryOver ==
    /\ idx = Len(finalInputPaths) + 1
    /\ Len(inputLog) = Len(finalInputPaths)

RECURSIVE collectedFrom(_)
\* the entries of the inputs that succeeded, in input order
collectedFrom(log) ==
    IF log = <<>> THEN <<>>
    ELSE (IF Head(log).err = NoErr THEN Head(log).files ELSE <<>>)
         \o collectedFrom(Tail(log))

\* C32: discovery and enrichment do not overlap: workers are started and
\* entries queued only when every input has been processed, and from then on
\* the list of entries, whose length sizes the queues, does not change.
C32_DiscoveryBeforeEnrichment ==
    /\ [](enrichmentBegun => (discoveryOver /\ allFilesMaster = collectedFrom(inputLog)))
    /\ [][(enrichmentBegun \/ enrichmentBegun')
              => (allFilesMaster' = allFilesMaster /\ inputLog' = inputLog
                  /\ fetchLog' = fetchLog /\ idx' = idx)]_vars

\* two inputs have been processed, both contributed entries, and the first
\* entry has been queued
C32_Witness ==
    /\ pc = "send"
    /\ sent = 1
    /\ Len(finalInputPaths) = 2
    /\ Len(inputLog) = 2
    /\ inputLog[1].err = NoErr /\ inputLog[1].files # <<>>
    /\ inputLog[2].err = NoErr /\ inputLog[2].files # <<>>
    /\ Len(allFilesMaster) = Len(inputLog[1].files) + Len(inputLog[2].files)

-----------------------------------------------------------------------------
(* Properties of the crawl's reach *)

\* the URLs the links of a read page lead to: hrefs resolving to http or https
followedTargets(w, p) ==
    IF pageRead(w, p)
    THEN {stripFragment(w[p].links[i].url) : i \in {k \in 1..Len(w[p].links) :
             /\ w[p].links[k].kind = "url"
             /\ SchemeOf(w[p].links[k].url) \in {"http", "https"}}}
    ELSE {}

RECURSIVE reachableWithin(_, _, _)
\* the URLs a chain of at most k followed links through read pages leads to
\* from a URL of S
reachableWithin(w, S, k) ==
    IF k < 0 THEN {}
    ELSE IF k = 0 THEN S
    ELSE reachableWithin(w, S \cup UNION {followedTargets(w, PageOf(u)) : u \in S}, k - 1)

\* every reachable URL was requested, and has an entry when its page was read
\* and converted
reachCovered(w, reach, fetches, files) ==
    \A u \in reach :
        /\ \E g \in 1..Len(fetches) : fetches[g].url = u
        /\ (pageRead(w, PageOf(u)) /\ w[PageOf(u)].convOK)
               => \E i \in 1..Len(files) : files[i].Path = u

\* C33: a traversal with ceiling K requests every URL that at most K followed
\* links through 2xx HTML pages lead to from the start URL, and every such page
\* that converts has an entry, whatever the order of the links.
C33_CrawlCompleteWithinCeiling ==
    \A n \in 1..Len(inputLog) :
        (isWebURL(inputLog[n].input) /\ traverseLinks) =>
            reachCovered(web,
                         reachableWithin(web, {stripFragment(inputLog[n].input.url)},
                                         linkDepth),
                         fetchesOf(n), inputLog[n].files)

-----------------------------------------------------------------------------
(* Properties of the tree of a walked directory *)

\* the run printed the tree of its one input, a local directory
treePrinted ==
    /\ pc \in {"defers", "done"}
    /\ ~pdfOutput
    /\ outputFormat \in {"tree", "both"}
    /\ Len(finalInputPaths) = 1
    /\ isDir(LocalFS, finalInputPaths[1])

\* C34: for a single local-directory input, every file entry the walk returned,
\* at any depth below the root, is a node of the printed tree.
C34_WalkedFilesInTree ==
    treePrinted =>
        \A k \in 1..Len(received) :
            ~received[k].IsDir => received[k].Path \in treePaths(rendered)

-----------------------------------------------------------------------------
(* Properties of the lifetime of cloned directories *)

\* every collected entry that names a local file is on the disk
entriesOnDisk(disk, files) ==
    \A k \in 1..Len(files) : ~isURLPath(files[k].Path) => files[k].Path \in DOMAIN disk

\* the successful clones of the run are all on the disk
clonesOnDisk ==
    \A t \in tmpEver : t.repo \notin BrokenRepos => t.name \in tmpOnDisk

\* C35: a cloned temporary directory stays while its files can be read: until
\* the run returns every collected entry is on the disk, and the directories
\* are removed in the one step that ends the run, after the workers have
\* finished and the output has been generated.
C35_ClonesOutliveReads ==
    /\ [](pc # "done" => (clonesOnDisk /\ entriesOnDisk(diskNow, allFilesMaster)))
    /\ [](pc = "done" => tmpOnDisk = {})
    /\ [][(tmpOnDisk' # tmpOnDisk) =>
              \/ pc = "loop" /\ pc' = "loop" /\ tmpOnDisk \subseteq tmpOnDisk'
              \/ /\ pc = "defers" /\ pc' = "done"
                 /\ \A w \in DOMAIN worker : worker[w].pc = "done"
                 /\ rendered' = rendered /\ processedFiles' = processedFiles]_vars

\* the output holds the content of a.go read from a clone that is still on the
\* disk, with the token count a worker got from the same file
C35_Witness ==
    /\ pc = "defers"
    /\ "t1" \in tmpOnDisk
    /\ numWorkers >= 1
    /\ \E i \in 1..Len(rendered) :
           /\ rendered[i].kind = "file"
           /\ rendered[i].path = <<"t1", "a.go">>
           /\ rendered[i].body = [content |-> Bytes(40, 8), err |-> NoErr]
           /\ rendered[i].tokens = [shown |-> TRUE, err |-> NoErr, count |-> 8]

-----------------------------------------------------------------------------
(* Properties of the filter of an explicit file *)

\* no glob of the configuration is malformed
globsValid ==
    /\ \A k \in 1..Len(parsePatterns(Chars[excludePatterns])) :
           ~BadPattern(parsePatterns(Chars[excludePatterns])[k])
    /\ \A k \in 1..Len(parsePatterns(Chars[includePatterns])) :
           ~BadPattern(parsePatterns(Chars[includePatterns])[k])

\* the input names a file that can be accessed
explicitFile(disk, path) ==
    path \in DOMAIN disk /\ disk[path].statOK /\ ~disk[path].isDir

\* the four file rules, stated on the file alone
fileRulesKeep(disk, path) ==
    /\ ~hiddenRule(Chars[Last(path)])
    /\ ~excludeRule(Chars[Last(path)])
    /\ includeKeeps(path, Chars[Last(path)])
    /\ ~sizeRule(disk[path].size)

\* what the walk's callback answers for the file in a walk of its directory
\* that has no ignore list
walkerKeeps(disk, path) ==
    walkCallback(disk, parentOf(path), [loaded |-> FALSE, names |-> {}], path).act = "keep"

\* the explicit file is returned iff the walker's file rules keep it, whatever
\* the ignore lists around it and the depth ceiling are
keptLikeWalkedFile(disk, path, result) ==
    /\ result.err = NoErr
    /\ result.files \in {<<>>, <<NewFileInfo(path, disk[path].size, NilContent)>>}
    /\ result.files # <<>> <=> fileRulesKeep(disk, path)
    /\ disk[path].infoOK => (result.files # <<>> <=> walkerKeeps(disk, path))

\* C36: with valid globs an explicit file input is kept iff the walker's file
\* rules (hidden, exclude glob, include or language, size ceiling) keep that
\* file; neither the ignore list nor the depth ceiling is applied to it.
C36_ExplicitFileFilteredLikeWalkedFile ==
    globsValid =>
        \A n \in 1..Len(inputLog) :
            (~isWebURL(inputLog[n].input) /\ explicitFile(diskNow, inputLog[n].input.path))
                => keptLikeWalkedFile(diskNow, inputLog[n].input.path, inputLog[n])

\* the walk of r left out r/d/ig, which r's ignore list names, and under depth
\* ceiling 1 nothing below r/d/s; named on the command line, r/d/ig is returned
C36_Witness ==
    /\ Len(inputLog) = 2
    /\ maxDepth = 1
    /\ inputLog[1].input.path = <<"r">>
    /\ walkCallback(diskNow, <<"r">>, loadIgnoreMatcher(diskNow, <<"r">>),
                    <<"r", "d", "ig">>).rule = "ignore"
    /\ ~returned(inputLog[1].files, <<"r", "d", "ig">>)
    /\ inputLog[2].input.path = <<"r", "d", "ig">>
    /\ returned(inputLog[2].files, <<"r", "d", "ig">>)

-----------------------------------------------------------------------------
(* Properties of pages whose conversion fails *)

\* the web with every conversion succeeding
converting(w) == [p \in Pages |-> [w[p] EXCEPT !.convOK = TRUE]]

\* the pages that were read and whose conversion failed
unconverted(w) == {p \in Pages : pageRead(w, p) /\ ~w[p].convOK}

\* against the crawl ref of the same web with every conversion succeeding: the
\* same requests at the same depths, and the same entries in the same order
\* but for the entries of the unconverted pages
onlyEntryMissing(w, fetches, result, ref) ==
    /\ result.err = NoErr
    /\ [i \in 1..Len(fetches) |-> [url |-> fetches[i].url, depth |-> fetches[i].depth]]
           = ref.st.fetched
    /\ result.files = SelectSeq(ref.files, LAMBDA f : PageOf(f.Path) \notin unconverted(w))
    /\ \A i \in 1..Len(result.files) : PageOf(result.files[i].Path) \notin unconverted(w)
    /\ \A i, k \in 1..Len(fetches) : fetches[i].url = fetches[k].url => i = k

\* C37: a failed conversion of a fetched page costs the page its entry and
\* nothing else: the crawl returns no error, the page is requested once, and
\* below the ceiling its links are crawled as they are for a page that
\* converts, with the entries of the pages below produced.
C37_ConversionFailureKeepsLinks ==
    \A n \in 1..Len(inputLog) :
        (isWebURL(inputLog[n].input) /\ traverseLinks) =>
            onlyEntryMissing(web, fetchesOf(n), inputLog[n],
                             processWebURLRecursive(converting(web), inputLog[n].input.url,
                                                    0, linkDepth, EmptyCrawl))

\* the start page P does not convert; it has no entry, Q, which it links to,
\* has one, and Q's link back to P led to no second request for P
C37_Witness ==
    /\ traverseLinks
    /\ linkDepth = 2
    /\ Len(inputLog) = 1
    /\ PageOf(inputLog[1].input.url) = "P"
    /\ "P" \in unconverted(web)
    /\ web["Q"].links = <<Href("http", "P", ""), Href("http", "R", "a"),
                           Href("http", "R", "b")>>
    /\ inputLog[1].err = NoErr
    /\ \A i \in 1..Len(inputLog[1].files) : PageOf(inputLog[1].files[i].Path) # "P"
    /\ \E i \in 1..Len(inputLog[1].files) : PageOf(inputLog[1].files[i].Path) = "Q"
    /\ Cardinality({k \in 1..Len(fetchLog) : PageOf(fetchLog[k].url) = "P"}) = 1

-----------------------------------------------------------------------------
(* Properties of a web input without traversal *)

\* one request, for the start URL without its fragment, at depth 0
oneFetch(url, fetches) ==
    /\ Len(fetches) = 1
    /\ fetches[1].url = stripFragment(url)
    /\ fetches[1].depth = 0

\* the entry of the start page, or an error and no entry
startPageOrError(w, url, result) ==
    IF pageRead(w, PageOf(url)) /\ w[PageOf(url)].convOK
    THEN /\ result.err = NoErr
         /\ Len(result.files) = 1
         /\ result.files[1].Path = stripFragment(url)
         /\ result.files[1].Size = w[PageOf(url)].markdown.len
         /\ result.files[1].Content = w[PageOf(url)].markdown
         /\ ~result.files[1].IsDir
    ELSE /\ result.err # NoErr
         /\ result.files = <<>>

\* the inputs processed so far that returned an error
failedSoFar == {n \in 1..Len(inputLog) : inputLog[n].err # NoErr}

====
